---- MODULE Spec2Model ----
(***************************************************************************)
(* A model of the App / Schedule / Stage orchestration layer of bevy_app   *)
(* (crates/bevy_app/src/app.rs), of the UI render registration             *)
(* (crates/bevy_ui/src/render/mod.rs) and of the bevymark example          *)
(* (examples/tools/bevymark.rs).                                           *)
(*                                                                         *)
(* The App is a value: every builder method of app.rs is an operator from  *)
(* App values to App values.  A panic of the process is recorded in the    *)
(* field `panic` of the App value; a panicked App is dead and every later  *)
(* builder call leaves it as it is.                                        *)
(*                                                                         *)
(* Schedule, SystemStage, RunOnce and Events live in bevy_ecs, which is    *)
(* not part of the sources at hand: they are modelled from the design      *)
(* document (sections 3, 4.1, 4.2 and 5).                                  *)
(***************************************************************************)
EXTENDS Integers, Sequences, FiniteSets, TLC

VARIABLES
    app,        \* the App value under construction / being updated
    pc,         \* "config" | "update" | "idle" | "panicked"
    step,       \* index into UpdateSteps of the part of update() being executed
    ctx,        \* whose Schedule is executing: "main" or the label of a sub-app
    cursor,     \* index into the executing Schedule's stage_order (0: not entered)
    inner,      \* index into a nested Schedule's stage_order (0: not nested)
    running,    \* systems executing right now: <<ctx, stage label, index>>
    finished,   \* systems of the current stage run that have completed
    local,      \* per running system: the value it read when it started
    sub_done,   \* sub-apps whose runner has returned in this update()
    updates,    \* number of update() calls begun so far
    runs,       \* per system name: number of completed executions
    stage_log,  \* stages entered during the current update(), in order
    sub_calls,  \* per sub-app label: runner invocations in the current update()
    sched_runs, \* runs of the main Schedule begun in the current update()
    sent,       \* update numbers in which an event E has been sent
    queued,     \* total number of bird spawns requested so far
    birds,      \* the depth ranks given to the birds, in the order the spawns were queued
    commands,   \* deferred commands of the current stage, applied when it ends
    last_call,  \* the latest builder call and the stage orders before it
    run,        \* App::run: whether it was called, its runner, the App it handed over
    ui,         \* prepare_uinodes: the extracted nodes, the loop's locals and its output
    entry       \* the State<S> value the run criteria read when the current stage was
                \* entered, and per value the number of Update stages entered with it

vars == <<app, pc, step, ctx, cursor, inner, running, finished, local, sub_done,
          updates, runs, stage_log, sub_calls, sched_runs, sent, queued, birds, commands,
          last_call, run, ui, entry>>

-----------------------------------------------------------------------------
(* Bounds of the model *)

MaxUpdates == 3
MaxAddEvent == 2
MaxSpawn == 2
MaxWave == 2

\* labels a user may give to the stages it adds
\* longest extracted sequence enumerated kind by kind
MaxNodes == 3

\* longest sequence of builder calls made on one of the starting Apps
MaxCalls == 2

\* frames of the render sub-app followed through the UI systems
MaxFrames == 2

UserLabels == {"A", "B"}
\* a label no stage ever carries
AbsentLabel == "Absent"

\* the values of the state type S of the probes
StateValues == {"Menu", "Game"}

\* no stage has been entered
NoEntry == [state |-> "none", hits |-> [x \in StateValues |-> 0]]

-----------------------------------------------------------------------------
(* Helpers *)

Range(s) == {s[i] : i \in 1..Len(s)}

EmptyMap == [x \in {} |-> {}]

\* position of x in s, 0 when absent
IndexOf(s, x) ==
    IF x \in Range(s) THEN CHOOSE i \in 1..Len(s) : s[i] = x /\ \A j \in 1..(i-1) : s[j] # x
    ELSE 0

\* Vec::insert(i, x) with 1-based i: x ends at position i
InsertAt(s, i, x) == SubSeq(s, 1, i - 1) \o <<x>> \o SubSeq(s, i, Len(s))

\* s without the elements equal to x
Without(s, x) == SelectSeq(s, LAMBDA y : y # x)

NoPanic == "none"

Result(v, p) == [value |-> v, panic |-> p]

-----------------------------------------------------------------------------
(* bevy_ecs: Schedule and SystemStage, from the design document *)

SystemStage_parallel == [kind |-> "SystemStage", systems |-> <<>>]

Schedule_default ==
    [kind |-> "Schedule", stage_order |-> <<>>, stages |-> EmptyMap,
     run_criteria |-> "Always", ran |-> FALSE]

Schedule_with_run_criteria(s, c) == [s EXCEPT !.run_criteria = c]

\* add_stage(label, stage) appends at the end (labels are fresh)
Schedule_add_stage(s, label, stage) ==
    Result([s EXCEPT !.stage_order = Append(@, label),
                     !.stages = (label :> stage) @@ @], NoPanic)

Schedule_with_stage(s, label, stage) == Schedule_add_stage(s, label, stage).value

\* add_stage_after inserts right after target, "stage not found" if absent
Schedule_add_stage_after(s, target, label, stage) ==
    IF target \notin Range(s.stage_order)
    THEN Result(s, "StageNotFound")
    ELSE Result([s EXCEPT
                   !.stage_order = InsertAt(@, IndexOf(s.stage_order, target) + 1, label),
                   !.stages = (label :> stage) @@ @], NoPanic)

\* add_stage_before inserts right before target, "stage not found" if absent
Schedule_add_stage_before(s, target, label, stage) ==
    IF target \notin Range(s.stage_order)
    THEN Result(s, "StageNotFound")
    ELSE Result([s EXCEPT
                   !.stage_order = InsertAt(@, IndexOf(s.stage_order, target), label),
                   !.stages = (label :> stage) @@ @], NoPanic)

\* stage(label, f): look the stage up, downcast to `kind`, apply f;
\* fails if the label is missing or the kind mismatches
Schedule_stage(s, label, kind, F(_)) ==
    IF label \notin DOMAIN s.stages THEN Result(s, "StageNotFound")
    ELSE IF s.stages[label].kind # kind THEN Result(s, "StageKindMismatch")
    ELSE LET r == F(s.stages[label])
         IN  Result([s EXCEPT !.stages[label] = r.value], r.panic)

SystemStage_add_system(st, sys) ==
    Result([st EXCEPT !.systems = Append(@, sys)], NoPanic)

Schedule_add_system_to_stage(s, label, sys) ==
    Schedule_stage(s, label, "SystemStage", LAMBDA st : SystemStage_add_system(st, sys))

-----------------------------------------------------------------------------
(* System descriptors *)

System(name) ==
    [name |-> name, labels |-> {}, after |-> {}, before |-> {},
     run_criteria |-> "Always", exclusive |-> FALSE]

Label(sys, l) == [sys EXCEPT !.labels = @ \cup {l}]
After(sys, l) == [sys EXCEPT !.after = @ \cup {l}]
WithRunCriteria(sys, c) == [sys EXCEPT !.run_criteria = c]
Exclusive(sys) == [sys EXCEPT !.exclusive = TRUE]

\* the run criterion State::on_update(x)
StateScope(x) == "State::on_update(" \o x \o ")"

Events_update_system(T) == System("Events::update_system<" \o T \o ">")

-----------------------------------------------------------------------------
(* bevy_ecs: World resources and Events, from the design document *)

Events_name(T) == "Events<" \o T \o ">"

\* two generations of an ordered sequence of events
Events_default == [current |-> <<>>, previous |-> <<>>]

\* drop the oldest generation, promote current -> previous, current -> empty
Events_update(ev) == [current |-> <<>>, previous |-> ev.current]

Events_send(ev, e) == [ev EXCEPT !.current = Append(@, e)]

\* what a reader observes: the previous and the current generation
Events_readable(ev) == Range(ev.previous) \cup Range(ev.current)

World_default == EmptyMap

World_insert_resource(w, r, v) == (r :> v) @@ w

World_init_resource(w, r, v) == IF r \in DOMAIN w THEN w ELSE (r :> v) @@ w

-----------------------------------------------------------------------------
(* app.rs: the App value and its builder methods *)

\* App::empty
App_empty ==
    [world |-> World_default, schedule |-> Schedule_default, runner |-> "run_once",
     sub_apps |-> EmptyMap, panic |-> NoPanic]

\* `self.schedule.<call>; self`: the call's outcome becomes the App's
WithSchedule(a, r) == [a EXCEPT !.schedule = r.value, !.panic = r.panic]

\* the labels of the StartupStage enum (the type the assertions test for)
StartupStageType == {"PreStartup", "Startup", "PostStartup"}

add_stage(a, label, stage) ==
    IF a.panic # NoPanic THEN a
    ELSE WithSchedule(a, Schedule_add_stage(a.schedule, label, stage))

\* a plausible slip: inserting on the wrong side of the target
add_stage_after_swapped(a, target, label, stage) ==
    IF a.panic # NoPanic THEN a
    ELSE WithSchedule(a, Schedule_add_stage_before(a.schedule, target, label, stage))

add_stage_after(a, target, label, stage) ==
    IF a.panic # NoPanic THEN a
    ELSE WithSchedule(a, Schedule_add_stage_after(a.schedule, target, label, stage))

add_stage_before(a, target, label, stage) ==
    IF a.panic # NoPanic THEN a
    ELSE WithSchedule(a, Schedule_add_stage_before(a.schedule, target, label, stage))

add_startup_stage(a, label, stage) ==
    IF a.panic # NoPanic THEN a
    ELSE WithSchedule(a, Schedule_stage(a.schedule, "StartupSchedule", "Schedule",
                         LAMBDA s : Schedule_add_stage(s, label, stage)))

\* a plausible slip: searching the main schedule instead of the startup one
add_startup_stage_after_main(a, target, label, stage) ==
    IF a.panic # NoPanic THEN a
    ELSE WithSchedule(a, Schedule_add_stage_after(a.schedule, target, label, stage))

add_startup_stage_after(a, target, label, stage) ==
    IF a.panic # NoPanic THEN a
    ELSE WithSchedule(a, Schedule_stage(a.schedule, "StartupSchedule", "Schedule",
                         LAMBDA s : Schedule_add_stage_after(s, target, label, stage)))

add_startup_stage_before(a, target, label, stage) ==
    IF a.panic # NoPanic THEN a
    ELSE WithSchedule(a, Schedule_stage(a.schedule, "StartupSchedule", "Schedule",
                         LAMBDA s : Schedule_add_stage_before(s, target, label, stage)))

\* the closure handed to stage(): its parameter type fixes the concrete kind
\* T; on a SystemStage it adds a system, on a Schedule it adds a stage
StageFn(kind, st) ==
    IF kind = "SystemStage" THEN SystemStage_add_system(st, System("f_system"))
    ELSE Schedule_add_stage(st, "F", SystemStage_parallel)

\* a plausible slip: a missing label passed over in silence
stage_missing_ignored(a, label, kind) ==
    IF a.panic # NoPanic \/ label \notin DOMAIN a.schedule.stages THEN a
    ELSE WithSchedule(a, Schedule_stage(a.schedule, label, kind,
                                        LAMBDA st : StageFn(kind, st)))

\* App::stage with a closure over a stage of kind T
stage(a, label, kind) ==
    IF a.panic # NoPanic THEN a
    ELSE WithSchedule(a, Schedule_stage(a.schedule, label, kind,
                                        LAMBDA st : StageFn(kind, st)))

\* a plausible slip: a registration against a missing stage kept for later,
\* the call returning as if it had succeeded
add_system_to_stage_deferred(a, stage_label, sys) ==
    IF a.panic # NoPanic THEN a
    ELSE IF stage_label \in StartupStageType
    THEN [a EXCEPT !.panic = "add systems to a startup stage using App::add_startup_system_to_stage"]
    ELSE IF stage_label \notin DOMAIN a.schedule.stages THEN a
    ELSE WithSchedule(a, Schedule_add_system_to_stage(a.schedule, stage_label, sys))

\* a plausible slip: the assertion on the type of the label left out
add_system_to_stage_unasserted(a, stage_label, sys) ==
    IF a.panic # NoPanic THEN a
    ELSE WithSchedule(a, Schedule_add_system_to_stage(a.schedule, stage_label, sys))

add_system_to_stage(a, stage_label, sys) ==
    IF a.panic # NoPanic THEN a
    ELSE IF stage_label \in StartupStageType
    THEN [a EXCEPT !.panic = "add systems to a startup stage using App::add_startup_system_to_stage"]
    ELSE WithSchedule(a, Schedule_add_system_to_stage(a.schedule, stage_label, sys))

\* a plausible slip: the default stage of a system being First
add_system_to_first(a, sys) == add_system_to_stage(a, "First", sys)

add_system(a, sys) == add_system_to_stage(a, "Update", sys)

add_startup_system_to_stage(a, stage_label, sys) ==
    IF a.panic # NoPanic THEN a
    ELSE WithSchedule(a, Schedule_stage(a.schedule, "StartupSchedule", "Schedule",
                         LAMBDA s : Schedule_add_system_to_stage(s, stage_label, sys)))

add_startup_system(a, sys) == add_startup_system_to_stage(a, "Startup", sys)

insert_resource(a, r, v) ==
    IF a.panic # NoPanic THEN a
    ELSE [a EXCEPT !.world = World_insert_resource(@, r, v)]

\* a plausible slip: init_resource overwriting a value that is there
init_resource_overwrites(a, r, v) ==
    IF a.panic # NoPanic THEN a
    ELSE [a EXCEPT !.world = World_insert_resource(@, r, v)]

init_resource(a, r, v) ==
    IF a.panic # NoPanic THEN a
    ELSE [a EXCEPT !.world = World_init_resource(@, r, v)]

\* a plausible slip: the startup schedule without its run-once criterion
StartupSchedule_always ==
    Schedule_with_stage(
      Schedule_with_stage(
        Schedule_with_stage(Schedule_default,
          "PreStartup", SystemStage_parallel),
        "Startup", SystemStage_parallel),
      "PostStartup", SystemStage_parallel)

\* the nested startup Schedule built inside add_default_stages
StartupSchedule_new ==
    Schedule_with_stage(
      Schedule_with_stage(
        Schedule_with_stage(Schedule_with_run_criteria(Schedule_default, "RunOnce"),
          "PreStartup", SystemStage_parallel),
        "Startup", SystemStage_parallel),
      "PostStartup", SystemStage_parallel)

\* a plausible slip: the startup schedule registered ahead of First
add_default_stages_startup_first(a) ==
    add_stage(add_stage(add_stage(add_stage(add_stage(add_stage(a,
        "StartupSchedule", StartupSchedule_new),
        "First", SystemStage_parallel),
        "PreUpdate", SystemStage_parallel),
        "Update", SystemStage_parallel),
        "PostUpdate", SystemStage_parallel),
        "Last", SystemStage_parallel)

add_default_stages(a) ==
    add_stage(add_stage(add_stage(add_stage(add_stage(add_stage(a,
        "First", SystemStage_parallel),
        "StartupSchedule", StartupSchedule_new),
        "PreUpdate", SystemStage_parallel),
        "Update", SystemStage_parallel),
        "PostUpdate", SystemStage_parallel),
        "Last", SystemStage_parallel)

add_event(a, T) ==
    add_system_to_stage(init_resource(a, Events_name(T), Events_default),
                        "First", Events_update_system(T))

\* a plausible slip: clear_trackers registered as an ordinary parallel system
App_default_parallel_trackers ==
    add_system_to_stage(add_event(add_default_stages(App_empty), "AppExit"),
                        "Last", System("World::clear_trackers"))

\* impl Default for App / App::new
App_default ==
    add_system_to_stage(add_event(add_default_stages(App_empty), "AppExit"),
                        "Last", Exclusive(System("World::clear_trackers")))

\* a plausible slip: an entry already under the label is kept
add_sub_app_keeps_first(a, label, sub, sub_app_runner) ==
    IF a.panic # NoPanic THEN a
    ELSE [a EXCEPT !.sub_apps = @ @@ (label :> [app |-> sub, runner |-> sub_app_runner])]

add_sub_app(a, label, sub, sub_app_runner) ==
    IF a.panic # NoPanic THEN a
    ELSE [a EXCEPT !.sub_apps = (label :> [app |-> sub, runner |-> sub_app_runner]) @@ @]

\* Result<&mut App, impl AppLabel>: Ok(app) or Err(label)
Ok(sub) == [ok |-> TRUE, app |-> sub, label |-> "none"]
Err(label) == [ok |-> FALSE, app |-> "none", label |-> label]

\* App::get_sub_app_mut: the sub-app stored under the label, or the label back
get_sub_app_mut(a, label) ==
    IF label \in DOMAIN a.sub_apps THEN Ok(a.sub_apps[label].app) ELSE Err(label)

\* App::sub_app_mut: panics when the sub-app does not exist
sub_app_mut(a, label) ==
    LET r == get_sub_app_mut(a, label)
    IN  IF r.ok THEN Result(r.app, NoPanic)
        ELSE Result("none", "Sub-App with label '" \o r.label \o "' does not exist")

\* a plausible slip: the error built from a placeholder, the label dropped
get_sub_app_label_lost(a, label) ==
    IF label \in DOMAIN a.sub_apps THEN Ok(a.sub_apps[label].app) ELSE Err("")

\* App::get_sub_app
get_sub_app(a, label) ==
    IF label \in DOMAIN a.sub_apps THEN Ok(a.sub_apps[label].app) ELSE Err(label)

\* App::sub_app
sub_app(a, label) ==
    LET r == get_sub_app(a, label)
    IN  IF r.ok THEN Result(r.app, NoPanic)
        ELSE Result("none", "Sub-App with label '" \o r.label \o "' does not exist")

\* a plausible slip: the sub-app runners driven before the main Schedule
UpdateSteps_reversed == <<"sub_apps", "schedule">>

\* App::update: run the main Schedule, then drive every sub-app
UpdateSteps == <<"schedule", "sub_apps">>

-----------------------------------------------------------------------------
(* System sets *)

SystemSet_new == [systems |-> <<>>, run_criteria |-> "Always"]

SystemSet_with_run_criteria(set, c) == [set EXCEPT !.run_criteria = c]

SystemSet_with_system(set, sys) == [set EXCEPT !.systems = Append(@, sys)]

\* adding a SystemSet is adding each member with the set's criterion merged in
RECURSIVE SystemStage_add_systems(_, _, _)
SystemStage_add_systems(st, syss, c) ==
    IF syss = <<>> THEN st
    ELSE SystemStage_add_systems(
            SystemStage_add_system(st,
                IF c = "Always" THEN Head(syss) ELSE WithRunCriteria(Head(syss), c)).value,
            Tail(syss), c)

Schedule_add_system_set_to_stage(s, label, set) ==
    Schedule_stage(s, label, "SystemStage",
        LAMBDA st : Result(SystemStage_add_systems(st, set.systems, set.run_criteria), NoPanic))

add_system_set_to_stage(a, stage_label, set) ==
    IF a.panic # NoPanic THEN a
    ELSE IF stage_label \in StartupStageType
    THEN [a EXCEPT !.panic = "add system sets to a startup stage using App::add_startup_system_set_to_stage"]
    ELSE WithSchedule(a, Schedule_add_system_set_to_stage(a.schedule, stage_label, set))

add_system_set(a, set) == add_system_set_to_stage(a, "Update", set)

\* bevy_ecs State<S>: the current value and the transition stack
State_new(initial) == [current |-> initial, stack |-> <<initial>>]

\* State::set(x): the top of the stack is replaced
State_set(st, x) == [current |-> x, stack |-> SubSeq(st.stack, 1, Len(st.stack) - 1) \o <<x>>]

\* State::<S>::get_driver(): the system set holding the driver of the state
State_get_driver == SystemSet_with_system(SystemSet_new, System("State<S>::driver"))

\* SystemSet::on_update(x): a set whose systems run only in state x
SystemSet_on_update(x) == SystemSet_with_run_criteria(SystemSet_new, StateScope(x))

\* a plausible slip: the driver registered first, the resource inserted after
add_state_to_stage_schedule_first(a, stage_label, initial) ==
    insert_resource(add_system_set_to_stage(a, stage_label, State_get_driver),
                    "State<S>", State_new(initial))

add_state_to_stage(a, stage_label, initial) ==
    add_system_set_to_stage(insert_resource(a, "State<S>", State_new(initial)),
                            stage_label, State_get_driver)

\* a plausible slip: the driver placed in First
add_state_in_first(a, initial) == add_state_to_stage(a, "First", initial)

add_state(a, initial) == add_state_to_stage(a, "Update", initial)

add_startup_system_set_to_stage(a, stage_label, set) ==
    IF a.panic # NoPanic THEN a
    ELSE WithSchedule(a, Schedule_stage(a.schedule, "StartupSchedule", "Schedule",
                         LAMBDA s : Schedule_add_system_set_to_stage(s, stage_label, set)))

add_startup_system_set(a, set) == add_startup_system_set_to_stage(a, "Startup", set)

-----------------------------------------------------------------------------
(* app.rs: runners and App::run *)

set_runner(a, run_fn) ==
    IF a.panic # NoPanic THEN a ELSE [a EXCEPT !.runner = run_fn]

\* a plausible slip: a run_once that returns without updating
run_once_idle == <<>>

\* fn run_once(mut app: App): the calls its body makes on the App
run_once == <<"update">>

\* a plausible slip: the placeholder handed to the runner, the App left behind
App_run_hands_placeholder(a) ==
    [self |-> a, runner |-> a.runner, app |-> App_empty]

\* a plausible slip: the runner called without being taken out of the App
App_run_keeps_runner(a) ==
    [self |-> App_empty, runner |-> a.runner, app |-> a]

\* App::run: self is replaced by App::empty(), the runner is taken out of the
\* App (run_once put in its place) and called with the App
App_run(a) ==
    [self |-> App_empty, runner |-> a.runner, app |-> [a EXCEPT !.runner = "run_once"]]

-----------------------------------------------------------------------------
(* bevymark.rs: main *)

\* the resources the systems of bevymark take from the default plugins
DefaultPlugins_build(a) ==
    insert_resource(insert_resource(insert_resource(insert_resource(insert_resource(a,
        "Windows", "present"),
        "Time", "present"),
        "Input<MouseButton>", "present"),
        "AssetServer", "present"),
        "Diagnostics", "present")

\* a plausible slip: setup added as an ordinary system of the Update stage
Bevymark_main_setup_in_update ==
    add_system_set(
      add_system(add_system(add_system(add_system(
        add_system(
          insert_resource(
            DefaultPlugins_build(insert_resource(App_default, "WindowDescriptor", "BevyMark")),
            "BevyCounter", [count |-> 0]),
          System("setup")),
        System("mouse_handler")),
        System("movement_system")),
        System("collision_system")),
        System("counter_system")),
      SystemSet_with_system(SystemSet_with_run_criteria(SystemSet_new, "FixedTimestep"),
                            System("scheduled_spawner")))

Bevymark_main ==
    add_system_set(
      add_system(add_system(add_system(add_system(
        add_startup_system(
          insert_resource(
            DefaultPlugins_build(insert_resource(App_default, "WindowDescriptor", "BevyMark")),
            "BevyCounter", [count |-> 0]),
          System("setup")),
        System("mouse_handler")),
        System("movement_system")),
        System("collision_system")),
        System("counter_system")),
      SystemSet_with_system(SystemSet_with_run_criteria(SystemSet_new, "FixedTimestep"),
                            System("scheduled_spawner")))

-----------------------------------------------------------------------------
(* The render sub-app (bevy_render, from the design document 4.4) and       *)
(* render/mod.rs: build_ui_render                                           *)

RenderApp_new ==
    add_stage(add_stage(add_stage(add_stage(add_stage(App_empty,
        "Extract", SystemStage_parallel),
        "Prepare", SystemStage_parallel),
        "Queue", SystemStage_parallel),
        "PhaseSort", SystemStage_parallel),
        "Render", SystemStage_parallel)

\* the render plugin: the camera resources, and the render sub-app when a
\* rendering backend is available
RenderPlugin_build(a, backend) ==
    IF backend
    THEN add_sub_app(insert_resource(a, "ActiveCameras", {}), "RenderApp", RenderApp_new,
                     "render_runner")
    ELSE insert_resource(a, "ActiveCameras", {})

\* a plausible slip: the text extraction registered without its ordering
extract_text_uinodes_unordered == System("extract_text_uinodes")

\* extract_text_uinodes.after(RenderUiSystem::ExtractNode)
extract_text_uinodes_descriptor == After(System("extract_text_uinodes"), "ExtractNode")

\* a plausible slip: queue_uinodes registered in the Prepare stage
UiRenderRegistration_queue_in_prepare(ra) ==
    add_system_to_stage(add_system_to_stage(add_system_to_stage(
    add_system_to_stage(add_system_to_stage(add_system_to_stage(
    init_resource(init_resource(init_resource(init_resource(init_resource(init_resource(ra,
        "UiPipeline", "default"),
        "SpecializedPipelines<UiPipeline>", "default"),
        "UiImageBindGroups", EmptyMap),
        "UiMeta", "default"),
        "ExtractedUiNodes", <<>>),
        "DrawFunctions<TransparentUi>", "default"),
        "Extract", System("extract_ui_camera_phases")),
        "Extract", Label(System("extract_uinodes"), "ExtractNode")),
        "Extract", extract_text_uinodes_descriptor),
        "Prepare", System("prepare_uinodes")),
        "Prepare", System("queue_uinodes")),
        "PhaseSort", System("sort_phase_system<TransparentUi>"))

\* the registrations build_ui_render makes on the render sub-app
UiRenderRegistration(ra) ==
    add_system_to_stage(add_system_to_stage(add_system_to_stage(
    add_system_to_stage(add_system_to_stage(add_system_to_stage(
    init_resource(init_resource(init_resource(init_resource(init_resource(init_resource(ra,
        "UiPipeline", "default"),
        "SpecializedPipelines<UiPipeline>", "default"),
        "UiImageBindGroups", EmptyMap),
        "UiMeta", "default"),
        "ExtractedUiNodes", <<>>),
        "DrawFunctions<TransparentUi>", "default"),
        "Extract", System("extract_ui_camera_phases")),
        "Extract", Label(System("extract_uinodes"), "ExtractNode")),
        "Extract", extract_text_uinodes_descriptor),
        "Prepare", System("prepare_uinodes")),
        "Queue", System("queue_uinodes")),
        "PhaseSort", System("sort_phase_system<TransparentUi>"))

build_ui_render(a) ==
    IF a.panic # NoPanic THEN a
    ELSE IF "ActiveCameras" \notin DOMAIN a.world
    THEN [a EXCEPT !.panic = "ResourceDoesNotExist"]
    ELSE LET a1 == [a EXCEPT !.world["ActiveCameras"] = @ \cup {"camera_ui"}]
             render_app == get_sub_app_mut(a1, "RenderApp")
         IN  IF ~render_app.ok THEN a1
             ELSE LET ra == UiRenderRegistration(render_app.app)
                  IN  [a1 EXCEPT !.sub_apps["RenderApp"].app = ra, !.panic = ra.panic]

-----------------------------------------------------------------------------
(* Declared data access of the systems *)

NoAccess == [reads |-> {}, writes |-> {}]

\* bevy_ecs / probe systems: Events<T>::update_system takes ResMut<Events<T>>,
\* an EventWriter<E> writes Events<E>, an EventReader<E> reads it
Access_ecs(name) ==
    CASE name = "Events::update_system<AppExit>" -> [reads |-> {}, writes |-> {"Events<AppExit>"}]
      [] name = "Events::update_system<E>" -> [reads |-> {}, writes |-> {"Events<E>"}]
      [] name = "send_e" -> [reads |-> {}, writes |-> {"Events<E>"}]
      [] name = "read_e" -> [reads |-> {"Events<E>"}, writes |-> {}]
      [] name = "State<S>::driver" -> [reads |-> {}, writes |-> {"State<S>"}]
      [] name = "switch_state" -> [reads |-> {}, writes |-> {"State<S>"}]
      [] OTHER -> NoAccess

\* a plausible slip: the counter missing from mouse_handler's declared access
Access_bevymark_counter_undeclared(name) ==
    CASE name = "setup" -> [reads |-> {"AssetServer"}, writes |-> {}]
      [] name = "mouse_handler" ->
            [reads |-> {"Time", "Input<MouseButton>", "Windows", "BirdTexture"},
             writes |-> {}]
      [] name = "scheduled_spawner" ->
            [reads |-> {"Windows", "BirdTexture"}, writes |-> {"BirdScheduled", "BevyCounter"}]
      [] name = "movement_system" -> [reads |-> {"Time"}, writes |-> {"Bird", "Transform"}]
      [] name = "collision_system" -> [reads |-> {"Windows", "Transform"}, writes |-> {"Bird"}]
      [] name = "counter_system" ->
            [reads |-> {"Diagnostics", "BevyCounter"}, writes |-> {"Text"}]
      [] OTHER -> NoAccess

\* bevymark.rs: the parameter lists of the systems
Access_bevymark(name) ==
    CASE name = "setup" -> [reads |-> {"AssetServer"}, writes |-> {}]
      [] name = "mouse_handler" ->
            [reads |-> {"Time", "Input<MouseButton>", "Windows", "BirdTexture"},
             writes |-> {"BevyCounter"}]
      [] name = "scheduled_spawner" ->
            [reads |-> {"Windows", "BirdTexture"}, writes |-> {"BirdScheduled", "BevyCounter"}]
      [] name = "movement_system" -> [reads |-> {"Time"}, writes |-> {"Bird", "Transform"}]
      [] name = "collision_system" -> [reads |-> {"Windows", "Transform"}, writes |-> {"Bird"}]
      [] name = "counter_system" ->
            [reads |-> {"Diagnostics", "BevyCounter"}, writes |-> {"Text"}]
      [] OTHER -> NoAccess

\* render/mod.rs: the parameter lists of the UI render systems
Access_ui(name) ==
    CASE name = "extract_ui_camera_phases" -> [reads |-> {"ActiveCameras"}, writes |-> {}]
      [] name = "extract_uinodes" ->
            [reads |-> {"Assets<Image>", "Node", "GlobalTransform", "UiColor", "UiImage",
                        "Visibility", "CalculatedClip", "CornerRadius", "Border"},
             writes |-> {"RenderWorld"}]
      [] name = "extract_text_uinodes" ->
            [reads |-> {"Assets<TextureAtlas>", "DefaultTextPipeline", "Windows", "Node",
                        "GlobalTransform", "Text", "Visibility", "CalculatedClip"},
             writes |-> {"RenderWorld"}]
      [] name = "prepare_uinodes" ->
            [reads |-> {"RenderDevice", "RenderQueue"},
             writes |-> {"UiMeta", "ExtractedUiNodes"}]
      [] name = "queue_uinodes" ->
            [reads |-> {"DrawFunctions<TransparentUi>", "RenderDevice", "ViewUniforms",
                        "UiPipeline", "RenderAssets<Image>", "UiBatch", "SpriteAssetEvents"},
             writes |-> {"UiMeta", "SpecializedPipelines<UiPipeline>", "RenderPipelineCache",
                         "UiImageBindGroups", "RenderPhase<TransparentUi>"}]
      [] name = "sort_phase_system<TransparentUi>" ->
            [reads |-> {}, writes |-> {"RenderPhase<TransparentUi>"}]
      [] OTHER -> NoAccess

BevymarkSystems ==
    {"setup", "mouse_handler", "scheduled_spawner", "movement_system", "collision_system",
     "counter_system"}

UiSystems ==
    {"extract_ui_camera_phases", "extract_uinodes", "extract_text_uinodes",
     "prepare_uinodes", "queue_uinodes", "sort_phase_system<TransparentUi>"}

Access(name) ==
    IF name \in BevymarkSystems THEN Access_bevymark(name)
    ELSE IF name \in UiSystems THEN Access_ui(name)
    ELSE Access_ecs(name)

\* two systems conflict if either writes a type the other reads or writes;
\* an exclusive system is access = everything, write
Conflict(s1, s2) ==
    \/ s1.exclusive \/ s2.exclusive
    \/ Access(s1.name).writes \cap (Access(s2.name).reads \cup Access(s2.name).writes) # {}
    \/ Access(s2.name).writes \cap (Access(s1.name).reads \cup Access(s1.name).writes) # {}

-----------------------------------------------------------------------------
(* What the systems do: a system reads its inputs when it starts (the       *)
(* snapshot `snap` of the World) and writes its outputs when it finishes.  *)

\* a plausible slip: the counter not advanced by the spawns
spawn_birds_count_kept(counter, spawn_count) == counter

\* bevymark.rs spawn_birds: counter.count += spawn_count
spawn_birds(counter, spawn_count) == [counter EXCEPT !.count = @ + spawn_count]

\* bevy_ecs: the buffer rotation system and the event writer, on World w
Effect_ecs(name, snap, w) ==
    CASE name = "Events::update_system<E>" /\ "Events<E>" \in DOMAIN snap ->
            [w EXCEPT !["Events<E>"] = Events_update(snap["Events<E>"])]
      [] name = "Events::update_system<AppExit>" /\ "Events<AppExit>" \in DOMAIN snap ->
            [w EXCEPT !["Events<AppExit>"] = Events_update(snap["Events<AppExit>"])]
      [] name = "send_e" /\ "Events<E>" \in DOMAIN snap ->
            [w EXCEPT !["Events<E>"] = Events_send(snap["Events<E>"], updates)]
      [] name = "switch_state" /\ "State<S>" \in DOMAIN snap ->
            [w EXCEPT !["State<S>"] =
                State_set(snap["State<S>"],
                          CHOOSE x \in StateValues : x # snap["State<S>"].current)]
      [] OTHER -> w

\* bevymark.rs: mouse_handler and scheduled_spawner; n is the spawn count of
\* the frame (0 when the button is not pressed)
Effect_bevymark(name, snap, w, n) ==
    CASE name = "mouse_handler" /\ "BevyCounter" \in DOMAIN snap ->
            [w EXCEPT !["BevyCounter"] = spawn_birds(snap["BevyCounter"], n)]
      [] name = "scheduled_spawner" /\ {"BevyCounter", "BirdScheduled"} \subseteq DOMAIN snap ->
            IF snap["BirdScheduled"].wave > 0
            THEN [w EXCEPT !["BevyCounter"] =
                              spawn_birds(snap["BevyCounter"], snap["BirdScheduled"].per_wave),
                           !["BirdScheduled"] = [snap["BirdScheduled"] EXCEPT !.wave = @ - 1]]
            ELSE w
      [] OTHER -> w

\* the World after system `name`, started on `snap`, finishes on World w
Effect(name, snap, w, n) ==
    IF name \in BevymarkSystems THEN Effect_bevymark(name, snap, w, n)
    ELSE Effect_ecs(name, snap, w)

\* the number of bird spawns system `name` requests when it finishes
Spawned(name, snap, n) ==
    CASE name = "mouse_handler" /\ "BevyCounter" \in DOMAIN snap -> n
      [] name = "scheduled_spawner" /\ {"BevyCounter", "BirdScheduled"} \subseteq DOMAIN snap ->
            IF snap["BirdScheduled"].wave > 0 THEN snap["BirdScheduled"].per_wave ELSE 0
      [] OTHER -> 0

\* bevymark.rs spawn_birds: the depth rank counter.count + count of each bird
\* of the call, count going from 0 to spawn_count - 1
bird_ranks(counter, spawn_count) == [i \in 1..spawn_count |-> counter.count + (i - 1)]

\* the depth ranks of the birds system `name` spawns when it finishes
Ranked(name, snap, n) ==
    IF Spawned(name, snap, n) = 0 THEN <<>>
    ELSE bird_ranks(snap["BevyCounter"], Spawned(name, snap, n))

\* the commands system `name` queues: bevymark's setup inserts two resources
CommandsOf(name, per_wave, wave) ==
    IF name = "setup"
    THEN << [r |-> "BirdTexture", v |-> "icon"],
            [r |-> "BirdScheduled", v |-> [per_wave |-> per_wave, wave |-> wave]] >>
    ELSE <<>>

RECURSIVE ApplyCommands(_, _)
ApplyCommands(w, cs) ==
    IF cs = <<>> THEN w
    ELSE ApplyCommands(World_insert_resource(w, Head(cs).r, Head(cs).v), Tail(cs))

-----------------------------------------------------------------------------
(* Execution state *)

CtxApp == IF ctx = "main" THEN app ELSE app.sub_apps[ctx].app

SetWorld(a, c, w) ==
    IF c = "main" THEN [a EXCEPT !.world = w] ELSE [a EXCEPT !.sub_apps[c].app.world = w]

SetSchedule(a, c, s) ==
    IF c = "main" THEN [a EXCEPT !.schedule = s] ELSE [a EXCEPT !.sub_apps[c].app.schedule = s]

CurSchedule == CtxApp.schedule

OuterStage == CurSchedule.stages[CurSchedule.stage_order[cursor]]

CurStageLabel ==
    IF inner > 0 THEN OuterStage.stage_order[inner] ELSE CurSchedule.stage_order[cursor]

\* the systems of the stage being run (none before the first stage, and none
\* in a nested Schedule that its run criterion skipped)
CurSystems ==
    IF cursor = 0 THEN <<>>
    ELSE IF OuterStage.kind = "SystemStage" THEN OuterStage.systems
    ELSE IF inner > 0 THEN OuterStage.stages[CurStageLabel].systems
    ELSE <<>>

\* the stage labelled l of Schedule s, looked up through nested Schedules
StageOf(s, l) ==
    IF l \in DOMAIN s.stages THEN s.stages[l]
    ELSE LET o == CHOOSE o \in DOMAIN s.stages :
                     s.stages[o].kind = "Schedule" /\ l \in DOMAIN s.stages[o].stages
         IN  s.stages[o].stages[l]

AppOf(c) == IF c = "main" THEN app ELSE app.sub_apps[c].app

\* the descriptor of the system instance p = <<ctx, stage label, index>>
SystemAt(p) == StageOf(AppOf(p[1]).schedule, p[2]).systems[p[3]]

Runs(name) == IF name \in DOMAIN runs THEN runs[name] ELSE 0

\* which part of update() is executing
Phase == IF pc = "update" THEN UpdateSteps[step] ELSE "none"

\* a Schedule is being run: the main one, or a sub-app's by its runner
ScheduleActive ==
    /\ pc = "update"
    /\ \/ Phase = "schedule" /\ ctx = "main"
       \/ Phase = "sub_apps" /\ ctx # "main"

-----------------------------------------------------------------------------
(* bevy_ecs: the per-stage executor, from the design document (4.2, 5) *)

\* explicit ordering: s1 must complete before s2 starts
MustPrecede(s1, s2) ==
    \/ (s1.labels \cup {s1.name}) \cap s2.after # {}
    \/ (s2.labels \cup {s2.name}) \cap s1.before # {}

\* a plausible slip: leaving a stage as soon as all its systems were started
StageDone_started ==
    \A i \in 1..Len(CurSystems) : <<ctx, CurStageLabel, i>> \in running \cup finished

\* a stage is run to completion before the next one begins
StageDone ==
    \A i \in 1..Len(CurSystems) : <<ctx, CurStageLabel, i>> \in finished

CanStart(i) ==
    LET p == <<ctx, CurStageLabel, i>>
        sys == CurSystems[i]
    IN  /\ p \notin running \cup finished
        /\ \A j \in 1..Len(CurSystems) :
              (j # i /\ MustPrecede(CurSystems[j], sys)) => <<ctx, CurStageLabel, j>> \in finished
        /\ \A q \in running : ~Conflict(SystemAt(q), sys)

StartSystem(i) ==
    /\ ScheduleActive
    /\ cursor > 0
    /\ i \in 1..Len(CurSystems)
    /\ CanStart(i)
    /\ running' = running \cup {<<ctx, CurStageLabel, i>>}
    /\ local' = (<<ctx, CurStageLabel, i>> :> CtxApp.world) @@ local
    /\ UNCHANGED <<app, pc, step, ctx, cursor, inner, finished, sub_done, updates, runs,
                   stage_log, sub_calls, sched_runs, sent, queued, birds, commands, last_call,
                   run, ui, entry>>

\* a system whose run criterion (FixedTimestep) says no this frame
SkipSystem(i) ==
    /\ ScheduleActive
    /\ cursor > 0
    /\ i \in 1..Len(CurSystems)
    /\ CurSystems[i].run_criteria = "FixedTimestep"
    /\ CanStart(i)
    /\ finished' = finished \cup {<<ctx, CurStageLabel, i>>}
    /\ UNCHANGED <<app, pc, step, ctx, cursor, inner, running, local, sub_done, updates,
                   runs, stage_log, sub_calls, sched_runs, sent, queued, birds, commands,
                   last_call, run, ui, entry>>

FinishSystem(p, n, wave) ==
    /\ p \in running
    /\ LET name == SystemAt(p).name
           w == AppOf(p[1]).world
       IN  /\ app' = SetWorld(app, p[1], Effect(name, local[p], w, n))
           /\ queued' = queued + Spawned(name, local[p], n)
           /\ birds' = birds \o Ranked(name, local[p], n)
           /\ commands' = commands \o CommandsOf(name, n, wave)
           /\ runs' = (name :> Runs(name) + 1) @@ runs
           /\ sent' = IF name = "send_e" THEN sent \cup {updates} ELSE sent
    /\ running' = running \ {p}
    /\ finished' = finished \cup {p}
    /\ local' = [q \in DOMAIN local \ {p} |-> local[q]]
    /\ UNCHANGED <<pc, step, ctx, cursor, inner, sub_done, updates, stage_log, sub_calls,
                   sched_runs, last_call, run, ui, entry>>


StateOf(w) == IF "State<S>" \in DOMAIN w THEN w["State<S>"].current ELSE "none"

\* a state-scoped criterion holds when State<S> has the value of the scope
CriterionHolds(c, w) == \A x \in StateValues : c = StateScope(x) => StateOf(w) = x

\* run criteria are evaluated when the stage is entered, on World w: the
\* systems whose state scope does not match are done without running
EntrySkips(w, c, l, systems) ==
    {<<c, l, i>> : i \in {j \in 1..Len(systems) : ~CriterionHolds(systems[j].run_criteria, w)}}

EntryOf(w, c, l) ==
    [state |-> StateOf(w),
     hits |-> IF c = "main" /\ l = "Update" /\ StateOf(w) \in StateValues
              THEN [entry.hits EXCEPT ![StateOf(w)] = @ + 1]
              ELSE entry.hits]

\* RunOnce: a nested Schedule with this criterion runs on the first tick only
ShouldRun(st) == ~(st.run_criteria = "RunOnce" /\ st.ran)

AfterRunCriteria(st) == IF st.run_criteria = "RunOnce" THEN [st EXCEPT !.ran = TRUE] ELSE st

\* the running Schedule has no stage left to enter
AtEnd ==
    /\ cursor = Len(CurSchedule.stage_order)
    /\ IF cursor = 0 \/ inner = 0 THEN TRUE ELSE inner = Len(OuterStage.stage_order)

\* Schedule::run: the current stage is complete, its commands are applied
\* and the next stage in list order is entered
NextStage ==
    /\ ScheduleActive
    /\ StageDone
    /\ LET s == CurSchedule
           flushed == SetWorld(app, ctx, ApplyCommands(CtxApp.world, commands))
       IN  IF cursor > 0 /\ inner > 0 /\ inner < Len(OuterStage.stage_order)
           THEN /\ inner' = inner + 1
                /\ cursor' = cursor
                /\ stage_log' = Append(stage_log, <<ctx, OuterStage.stage_order[inner + 1]>>)
                /\ app' = flushed
           ELSE /\ cursor < Len(s.stage_order)
                /\ cursor' = cursor + 1
                /\ LET l == s.stage_order[cursor + 1]
                       st == s.stages[l]
                   IN  IF st.kind = "SystemStage"
                       THEN /\ inner' = 0
                            /\ stage_log' = Append(stage_log, <<ctx, l>>)
                            /\ app' = flushed
                       ELSE IF ShouldRun(st) /\ Len(st.stage_order) > 0
                       THEN /\ inner' = 1
                            /\ stage_log' = Append(stage_log, <<ctx, st.stage_order[1]>>)
                            /\ app' = SetSchedule(flushed, ctx,
                                         [s EXCEPT !.stages[l] = AfterRunCriteria(st)])
                       ELSE /\ inner' = 0
                            /\ stage_log' = stage_log
                            /\ app' = flushed
    /\ commands' = <<>>
    /\ UNCHANGED <<pc, step, ctx, running, local, sub_done, updates, runs,
                   sub_calls, sched_runs, sent, queued, birds, last_call, run, ui>>
    /\ finished' = finished \cup EntrySkips(CtxApp'.world, ctx, CurStageLabel', CurSystems')
    /\ entry' = EntryOf(CtxApp'.world, ctx, CurStageLabel')

-----------------------------------------------------------------------------
(* app.rs: App::update *)

\* App::run has not been called
NotRun == [state |-> "none"]

\* prepare_uinodes is not executing
NoUi == [at |-> "none"]

NoCall == [op |-> "none", target |-> "none", label |-> "none", main |-> <<>>, startup |-> <<>>]

\* update() is called on a configured App
Update ==
    /\ pc \in {"config", "idle"}
    /\ app.panic = NoPanic
    /\ updates < MaxUpdates
    /\ pc' = "update"
    /\ step' = 1
    /\ ctx' = "main"
    /\ cursor' = 0
    /\ inner' = 0
    /\ updates' = updates + 1
    /\ finished' = {}
    /\ sub_done' = {}
    /\ stage_log' = <<>>
    /\ sub_calls' = [l \in DOMAIN app.sub_apps |-> 0]
    /\ sched_runs' = 0
    /\ last_call' = NoCall
    /\ UNCHANGED <<app, running, local, runs, sent, queued, birds, commands, run, ui, entry>>

\* the next part of update(), or its return
StepDone ==
    IF step < Len(UpdateSteps)
    THEN pc' = "update" /\ step' = step + 1
    ELSE pc' = "idle" /\ step' = 0

\* self.schedule.run(&mut self.world) returns
MainScheduleDone ==
    /\ ScheduleActive
    /\ ctx = "main"
    /\ StageDone
    /\ AtEnd
    /\ app' = SetWorld(app, ctx, ApplyCommands(CtxApp.world, commands))
    /\ commands' = <<>>
    /\ sched_runs' = sched_runs + 1
    /\ cursor' = 0
    /\ inner' = 0
    /\ StepDone
    /\ UNCHANGED <<ctx, running, finished, local, sub_done, updates, runs, stage_log,
                   sub_calls, sent, queued, birds, last_call, run, ui, entry>>

\* a plausible slip: update() runs the Schedule of every sub-app itself,
\* whatever its runner does
RunSubApp_runs_schedule(l) ==
    /\ pc = "update"
    /\ Phase = "sub_apps"
    /\ ctx = "main"
    /\ l \in DOMAIN app.sub_apps
    /\ l \notin sub_done
    /\ sub_calls' = [sub_calls EXCEPT ![l] = @ + 1]
    /\ sub_done' = sub_done
    /\ ctx' = l
    /\ cursor' = 0
    /\ inner' = 0
    /\ UNCHANGED <<app, pc, step, running, finished, local, updates, runs, stage_log,
                   sched_runs, sent, queued, birds, commands, last_call, run, ui, entry>>

\* (sub_app.runner)(&mut self.world, &mut sub_app.app) for the next sub-app of
\* the map, whose iteration order is unspecified
RunSubApp(l) ==
    /\ pc = "update"
    /\ Phase = "sub_apps"
    /\ ctx = "main"
    /\ l \in DOMAIN app.sub_apps
    /\ l \notin sub_done
    /\ sub_calls' = [sub_calls EXCEPT ![l] = @ + 1]
    /\ IF app.sub_apps[l].runner = "noop_runner"
       THEN sub_done' = sub_done \cup {l} /\ ctx' = ctx
       ELSE sub_done' = sub_done /\ ctx' = l
    /\ cursor' = 0
    /\ inner' = 0
    /\ UNCHANGED <<app, pc, step, running, finished, local, updates, runs, stage_log,
                   sched_runs, sent, queued, birds, commands, last_call, run, ui, entry>>

\* the runner of the sub-app has run the sub-app's Schedule and returns
SubAppRunnerReturn ==
    /\ ScheduleActive
    /\ ctx # "main"
    /\ StageDone
    /\ AtEnd
    /\ app' = SetWorld(app, ctx, ApplyCommands(CtxApp.world, commands))
    /\ commands' = <<>>
    /\ sub_done' = sub_done \cup {ctx}
    /\ ctx' = "main"
    /\ cursor' = 0
    /\ inner' = 0
    /\ UNCHANGED <<pc, step, running, finished, local, updates, runs, stage_log, sub_calls,
                   sched_runs, sent, queued, birds, last_call, run, ui, entry>>

\* the loop over the sub-apps is over
SubAppsDone ==
    /\ pc = "update"
    /\ Phase = "sub_apps"
    /\ ctx = "main"
    /\ sub_done = DOMAIN app.sub_apps
    /\ StepDone
    /\ UNCHANGED <<app, ctx, cursor, inner, running, finished, local, sub_done, updates,
                   runs, stage_log, sub_calls, sched_runs, sent, queued, birds, commands,
                   last_call, run, ui, entry>>

-----------------------------------------------------------------------------
(* Configuration: the builder calls a program makes before the first update *)

StartupOrder(a) ==
    IF "StartupSchedule" \in DOMAIN a.schedule.stages
    THEN a.schedule.stages["StartupSchedule"].stage_order
    ELSE <<>>

AllLabels(a) == Range(a.schedule.stage_order) \cup Range(StartupOrder(a))

\* the system names registered in the stages of Schedule s and of its nested Schedules
RECURSIVE SystemNames(_)
SystemNames(s) ==
    UNION { IF s.stages[l].kind = "SystemStage"
            THEN {s.stages[l].systems[i].name : i \in 1..Len(s.stages[l].systems)}
            ELSE SystemNames(s.stages[l]) : l \in DOMAIN s.stages }

Call(op, target, label) ==
    [op |-> op, target |-> target, label |-> label,
     main |-> app.schedule.stage_order, startup |-> StartupOrder(app)]

\* one builder call: the App becomes a2; a panic ends the process
Configure(a2, call) ==
    /\ pc = "config"
    /\ app' = a2
    /\ pc' = IF a2.panic # NoPanic THEN "panicked" ELSE "config"
    /\ last_call' = call
    /\ UNCHANGED <<step, ctx, cursor, inner, running, finished, local, sub_done, updates,
                   runs, stage_log, sub_calls, sched_runs, sent, queued, birds, commands, run,
                   ui, entry>>

\* the labels a caller passes as the target of a relative insertion
Targets == {"Update", "Startup", "A", AbsentLabel}

\* callers use fresh labels for the stages they add
Fresh(label) == label \in UserLabels /\ label \notin AllLabels(app)

AddDefaultStages ==
    /\ "First" \notin AllLabels(app)
    /\ Configure(add_default_stages(app), Call("add_default_stages", "none", "none"))

AddStage ==
    \E label \in UserLabels :
        /\ Fresh(label)
        /\ Configure(add_stage(app, label, SystemStage_parallel),
                     Call("add_stage", "none", label))

AddStageAfter ==
    \E target \in Targets, label \in UserLabels :
        /\ Fresh(label)
        /\ Configure(add_stage_after(app, target, label, SystemStage_parallel),
                     Call("add_stage_after", target, label))

AddStageBefore ==
    \E target \in Targets, label \in UserLabels :
        /\ Fresh(label)
        /\ Configure(add_stage_before(app, target, label, SystemStage_parallel),
                     Call("add_stage_before", target, label))

AddStartupStage ==
    \E label \in UserLabels :
        /\ Fresh(label)
        /\ Configure(add_startup_stage(app, label, SystemStage_parallel),
                     Call("add_startup_stage", "none", label))

AddStartupStageAfter ==
    \E target \in Targets, label \in UserLabels :
        /\ Fresh(label)
        /\ Configure(add_startup_stage_after(app, target, label, SystemStage_parallel),
                     Call("add_startup_stage_after", target, label))

AddStartupStageBefore ==
    \E target \in Targets, label \in UserLabels :
        /\ Fresh(label)
        /\ Configure(add_startup_stage_before(app, target, label, SystemStage_parallel),
                     Call("add_startup_stage_before", target, label))

\* a startup system registered in a stage of the startup schedule
AddStartupSystemToStage ==
    \E l \in Range(StartupOrder(app)) :
        /\ "startup_system" \notin SystemNames(app.schedule)
        /\ Configure(add_startup_system_to_stage(app, l, System("startup_system")),
                     Call("add_startup_system_to_stage", l, "none"))

-----------------------------------------------------------------------------
(* Specification of the stage machinery: an App from App::empty() or        *)
(* App::new(), stages added by the caller, then MaxUpdates updates          *)

InitExec ==
    /\ step = 0
    /\ ctx = "main"
    /\ cursor = 0
    /\ inner = 0
    /\ running = {}
    /\ finished = {}
    /\ local = EmptyMap
    /\ sub_done = {}
    /\ updates = 0
    /\ runs = EmptyMap
    /\ stage_log = <<>>
    /\ sub_calls = EmptyMap
    /\ sched_runs = 0
    /\ sent = {}
    /\ queued = 0
    /\ birds = <<>>
    /\ commands = <<>>
    /\ last_call = NoCall
    /\ run = NotRun
    /\ entry = NoEntry

InitRun ==
    /\ InitExec
    /\ ui = NoUi

Init ==
    /\ app \in {App_empty, App_default}
    /\ pc = "config"
    /\ InitRun

Next ==
    \/ AddDefaultStages
    \/ AddStage
    \/ AddStageAfter
    \/ AddStageBefore
    \/ AddStartupStage
    \/ AddStartupStageAfter
    \/ AddStartupStageBefore
    \/ AddStartupSystemToStage
    \/ Update
    \/ NextStage
    \/ \E i \in 1..Len(CurSystems) : StartSystem(i)
    \/ \E p \in running : FinishSystem(p, 0, 0)
    \/ MainScheduleDone
    \/ SubAppsDone

Spec == Init /\ [][Next]_vars

-----------------------------------------------------------------------------
(* Properties of the stage machinery *)

IsPrefix(s, t) == Len(s) <= Len(t) /\ SubSeq(t, 1, Len(s)) = s

\* the stages add_default_stages registers, in their documented execution order
FixedOrder ==
    <<"First", "PreStartup", "Startup", "PostStartup", "PreUpdate", "Update", "PostUpdate",
      "Last">>

EveryFrameOrder == <<"First", "PreUpdate", "Update", "PostUpdate", "Last">>

HasDefaultStages == "First" \in DOMAIN app.schedule.stages

\* the default stages of the main App entered so far in this update, in order
DefaultStagesLog ==
    LET ls == SelectSeq(stage_log, LAMBDA e : e[1] = "main" /\ e[2] \in Range(FixedOrder))
    IN  [i \in 1..Len(ls) |-> ls[i][2]]

FirstComplete ==
    \A i \in 1..Len(app.schedule.stages["First"].systems) : <<"main", "First", i>> \in finished

\* C3: an App with the default stages enters them, on every update, in the
\* order First, PreStartup, Startup, PostStartup, PreUpdate, Update,
\* PostUpdate, Last (the startup stages on the first update only), and every
\* system of First has finished before a startup system starts.
C3_DefaultStageOrder ==
    (HasDefaultStages /\ pc \in {"update", "idle"}) =>
        LET expected == IF updates = 1 THEN FixedOrder ELSE EveryFrameOrder
        IN  /\ IsPrefix(DefaultStagesLog, expected)
            /\ pc = "idle" => DefaultStagesLog = expected
            /\ \A p \in running \cup finished :
                  (p[1] = "main" /\ p[2] \in Range(StartupOrder(app))) => FirstComplete

C3_Witness ==
    /\ HasDefaultStages
    /\ updates = 1
    /\ \E p \in running : p[2] \in Range(StartupOrder(app))
    /\ DefaultStagesLog = <<"First", "PreStartup", "Startup">>

\* C4: a system of a startup stage has run exactly once when the first
\* update returns and never runs afterwards; every stage of the main
\* schedule that is not a startup stage is run by every update, and each of
\* its systems once per update.
C4_StartupOnce ==
    /\ ("startup_system" \in SystemNames(app.schedule) /\ updates >= 1
          /\ (pc = "idle" \/ updates >= 2)) => Runs("startup_system") = 1
    /\ updates >= 2 => \A i \in 1..Len(stage_log) : stage_log[i][2] \notin Range(StartupOrder(app))
    /\ (pc = "idle" /\ updates >= 1) =>
          /\ \A l \in Range(app.schedule.stage_order) :
                app.schedule.stages[l].kind = "SystemStage" => <<"main", l>> \in Range(stage_log)
          /\ \A l \in Range(app.schedule.stage_order) :
                app.schedule.stages[l].kind = "SystemStage" =>
                   \A i \in 1..Len(app.schedule.stages[l].systems) :
                       Runs(app.schedule.stages[l].systems[i].name) = updates

C4_Witness ==
    /\ pc = "idle"
    /\ updates = MaxUpdates
    /\ Runs("startup_system") = 1
    /\ "A" \in Range(StartupOrder(app))
    /\ \E i \in 1..Len(StageOf(app.schedule, "A").systems) :
          StageOf(app.schedule, "A").systems[i].name = "startup_system"

\* C6: add_stage places the new stage last, add_stage_after right after its
\* target and add_stage_before right before it, and the stages already
\* present keep their relative order.
C6_StageOrder ==
    LET order == app.schedule.stage_order
        c == last_call
    IN  (c.op \in {"add_stage", "add_stage_after", "add_stage_before"}
           /\ (c.op = "add_stage" \/ c.target \in Range(c.main))) =>
          /\ app.panic = NoPanic
          /\ Len(order) = Len(c.main) + 1
          /\ Without(order, c.label) = c.main
          /\ StartupOrder(app) = c.startup
          /\ c.op = "add_stage" => order[Len(order)] = c.label
          /\ c.op = "add_stage_after" => IndexOf(order, c.label) = IndexOf(order, c.target) + 1
          /\ c.op = "add_stage_before" => IndexOf(order, c.label) + 1 = IndexOf(order, c.target)

C6_Witness ==
    /\ last_call.op = "add_stage_after"
    /\ last_call.target = "A"
    /\ last_call.label = "B"
    /\ "A" \in Range(last_call.main)
    /\ HasDefaultStages
    /\ IndexOf(app.schedule.stage_order, "B") = IndexOf(app.schedule.stage_order, "A") + 1

\* the schedule a relative insertion searches for its target
Searched(c) ==
    IF c.op \in {"add_stage_after", "add_stage_before"} THEN c.main ELSE c.startup

\* C7: a relative insertion whose target is absent from the schedule it
\* searches fails with stage-not-found and inserts nothing; the startup
\* variants search the startup schedule only.
C7_TargetAbsent ==
    LET c == last_call
    IN  (c.op \in {"add_stage_after", "add_stage_before", "add_startup_stage_after",
                   "add_startup_stage_before"}
           /\ c.target \notin Range(Searched(c))) =>
          /\ app.panic = "StageNotFound"
          /\ app.schedule.stage_order = c.main
          /\ StartupOrder(app) = c.startup
          /\ c.label \notin AllLabels(app)

C7_Witness ==
    /\ last_call.op = "add_startup_stage_after"
    /\ last_call.target = "Update"
    /\ "Update" \in Range(app.schedule.stage_order)
    /\ "Startup" \in Range(StartupOrder(app))
    /\ app.panic = "StageNotFound"

-----------------------------------------------------------------------------
(* Specification of the event machinery: App::new(), add_event::<E>() up to *)
(* MaxAddEvent times, one system sending E and one reading E in stages of   *)
(* the caller's choice, then MaxUpdates updates                             *)

\* the number of registered instances of system `name` in stage l
Instances(a, l, name) ==
    Cardinality({i \in 1..Len(a.schedule.stages[l].systems) :
                    a.schedule.stages[l].systems[i].name = name})

AddEvent ==
    /\ Instances(app, "First", "Events::update_system<E>") < MaxAddEvent
    /\ Configure(add_event(app, "E"), Call("add_event", "none", "E"))

AddSender ==
    \E l \in Range(EveryFrameOrder) :
        /\ "Events<E>" \in DOMAIN app.world
        /\ "send_e" \notin SystemNames(app.schedule)
        /\ Configure(add_system_to_stage(app, l, System("send_e")),
                     Call("add_system_to_stage", l, "send_e"))

AddReader ==
    \E l \in Range(EveryFrameOrder) :
        /\ "Events<E>" \in DOMAIN app.world
        /\ "read_e" \notin SystemNames(app.schedule)
        /\ Configure(add_system_to_stage(app, l, System("read_e")),
                     Call("add_system_to_stage", l, "read_e"))

InitEvents ==
    /\ app = App_default
    /\ pc = "config"
    /\ InitRun

NextEvents ==
    \/ AddEvent
    \/ AddSender
    \/ AddReader
    \/ Update
    \/ NextStage
    \/ \E i \in 1..Len(CurSystems) : StartSystem(i)
    \/ \E p \in running : FinishSystem(p, 0, 0)
    \/ MainScheduleDone
    \/ SubAppsDone

SpecEvents == InitEvents /\ [][NextEvents]_vars

\* the main-schedule stage in which system `name` is registered
StageOfSystem(name) ==
    CHOOSE l \in Range(app.schedule.stage_order) :
        /\ app.schedule.stages[l].kind = "SystemStage"
        /\ \E i \in 1..Len(app.schedule.stages[l].systems) :
              app.schedule.stages[l].systems[i].name = name

\* the events a running reader observes
Seen(p) == Events_readable(local[p]["Events<E>"])

Readers == {p \in running : SystemAt(p).name = "read_e"}

\* C2: only systems of the stage being run are executing (a stage starts
\* when the stage before it is complete), and a reader in a later stage
\* observes what a system of an earlier stage of the same update sent (the
\* sender in a stage after First, where the buffers are rotated).
C2_StagesSequential ==
    /\ \A p \in running : cursor > 0 /\ p[1] = ctx /\ p[2] = CurStageLabel
    /\ running # {} => ScheduleActive
    /\ \A p \in Readers :
          ("send_e" \in SystemNames(app.schedule)
             /\ StageOfSystem("send_e") # "First"
             /\ IndexOf(app.schedule.stage_order, StageOfSystem("send_e"))
                  < IndexOf(app.schedule.stage_order, p[2]))
          => updates \in Seen(p)

C2_Witness ==
    /\ updates = 2
    /\ "send_e" \in SystemNames(app.schedule)
    /\ \E p \in Readers :
          /\ p[2] = "PostUpdate"
          /\ StageOfSystem("send_e") = "Update"
          /\ updates \in Seen(p)

\* C8 as stated: an event sent during update T is readable during updates T
\* and T+1 and by no system during update T+2.
C8_TwoUpdateWindow ==
    \A p \in Readers : \A t \in sent :
        /\ t \in {updates - 1, updates} => t \in Seen(p)
        /\ t <= updates - 2 => t \notin Seen(p)

\* C9 as stated: every update rotates the buffers of a registered event type
\* exactly once, however often add_event was called.
C9_RotateOncePerUpdate ==
    (pc = "idle" /\ "Events<E>" \in DOMAIN app.world) =>
        Runs("Events::update_system<E>") = updates

-----------------------------------------------------------------------------
(* Specification of bevymark: the App its main configures, then updates *)

\* the inputs that make a difference to the system: setup reads per_wave and
\* wave from the command line, mouse_handler spawns n birds, the others take none
TakesInputs(p, n, wave) ==
    IF SystemAt(p).name = "setup" THEN TRUE
    ELSE IF SystemAt(p).name = "mouse_handler" THEN wave = 0
    ELSE n = 0 /\ wave = 0

InitBevymark ==
    /\ app = Bevymark_main
    /\ pc = "idle"
    /\ InitRun

NextBevymark ==
    \/ Update
    \/ NextStage
    \/ \E i \in 1..Len(CurSystems) : StartSystem(i)
    \/ \E i \in 1..Len(CurSystems) : SkipSystem(i)
    \/ \E p \in running, n \in 0..MaxSpawn, wave \in 0..MaxWave :
          /\ TakesInputs(p, n, wave)
          /\ FinishSystem(p, n, wave)
    \/ MainScheduleDone
    \/ SubAppsDone

SpecBevymark == InitBevymark /\ [][NextBevymark]_vars

\* C1: no two systems with conflicting declared access execute at the same
\* time, and the counter has grown by exactly what the systems of the stage
\* added to it whenever no system is executing.
C1_NoConflictingOverlap ==
    /\ \A p, q \in running : p # q => ~Conflict(SystemAt(p), SystemAt(q))
    /\ running = {} => app.world["BevyCounter"].count = queued

C1_Witness ==
    /\ pc = "idle"
    /\ Runs("mouse_handler") = 2
    /\ Runs("scheduled_spawner") = 2
    /\ queued = 4
    /\ app.world["BevyCounter"].count = 4

-----------------------------------------------------------------------------
(* Specification of the sub-apps: App::new() with the render plugin, the UI *)
(* render registration and an auxiliary sub-app, then updates               *)

AddRenderPlugin ==
    \E backend \in BOOLEAN :
        /\ "ActiveCameras" \notin DOMAIN app.world
        /\ Configure(RenderPlugin_build(app, backend), Call("RenderPlugin", "none", "none"))

BuildUiRender ==
    /\ last_call.op # "build_ui_render"
    /\ ("RenderApp" \in DOMAIN app.sub_apps =>
           "extract_uinodes" \notin SystemNames(app.sub_apps["RenderApp"].app.schedule))
    /\ Configure(build_ui_render(app), Call("build_ui_render", "none", "none"))

AddAuxSubApp ==
    \E r \in {"update_runner", "noop_runner"} :
        /\ "AuxApp" \notin DOMAIN app.sub_apps
        /\ Configure(add_sub_app(app, "AuxApp", App_default, r),
                     Call("add_sub_app", "none", "AuxApp"))

SubAppQueries == {"get_sub_app", "get_sub_app_mut", "sub_app", "sub_app_mut"}

\* a lookup of a sub-app by label; the call records the App it was made on
\* and what it returned
QuerySubApp ==
    \E op \in SubAppQueries, l \in {"RenderApp", "AuxApp"} :
        LET r == CASE op = "get_sub_app" -> get_sub_app(app, l)
                   [] op = "get_sub_app_mut" -> get_sub_app_mut(app, l)
                   [] op = "sub_app" -> sub_app(app, l)
                   [] op = "sub_app_mut" -> sub_app_mut(app, l)
            a2 == IF op \in {"sub_app", "sub_app_mut"} /\ r.panic # NoPanic
                  THEN [app EXCEPT !.panic = r.panic]
                  ELSE app
        IN  /\ app.panic = NoPanic
            /\ Configure(a2, [result |-> r, on |-> app] @@ Call(op, l, "none"))

InitRender ==
    /\ app = App_default
    /\ pc = "config"
    /\ InitRun

NextRender ==
    \/ AddRenderPlugin
    \/ BuildUiRender
    \/ AddAuxSubApp
    \/ QuerySubApp
    \/ Update
    \/ NextStage
    \/ \E i \in 1..Len(CurSystems) : StartSystem(i)
    \/ \E p \in running : FinishSystem(p, 0, 0)
    \/ MainScheduleDone
    \/ \E l \in {"RenderApp", "AuxApp"} : RunSubApp(l)
    \/ SubAppRunnerReturn
    \/ SubAppsDone

SpecRender == InitRender /\ [][NextRender]_vars

\* the sub-apps whose runner has been invoked and has not returned
InProgress == {l \in DOMAIN sub_calls : sub_calls[l] > 0 /\ l \notin sub_done}

\* C5: an update runs the main Schedule once and then the runner of every
\* sub-app once, on that sub-app; no runner starts before the main Schedule
\* run is complete, and no two runners overlap.
C5_SubAppsAfterSchedule ==
    /\ (pc = "idle" /\ updates >= 1) =>
          /\ sched_runs = 1
          /\ \A l \in DOMAIN app.sub_apps : sub_calls[l] = 1
    /\ \A l \in DOMAIN sub_calls : sub_calls[l] > 0 => (sched_runs = 1 /\ sub_calls[l] = 1)
    /\ sched_runs <= 1
    /\ Cardinality(InProgress) <= 1
    /\ \A l \in InProgress : ctx = l
    /\ \A p \in running : p[1] = ctx

C5_Witness ==
    /\ updates = 2
    /\ sub_done = {"AuxApp"}
    /\ app.sub_apps["AuxApp"].runner = "update_runner"
    /\ ctx = "RenderApp"
    /\ sched_runs = 1
    /\ running # {}

\* the instances of system `name` in the stage being run
InstancesRunning(name, S) == {p \in S : SystemAt(p).name = name}

\* C10: a system never starts before the systems it is declared after have
\* finished; extract_text_uinodes starts only after extract_uinodes has
\* finished, in every run of the Extract stage.
C10_ExplicitOrder ==
    /\ \A p \in running \cup finished :
          LET syss == StageOf(AppOf(p[1]).schedule, p[2]).systems
          IN  \A j \in 1..Len(syss) :
                 (j # p[3] /\ MustPrecede(syss[j], syss[p[3]])) => <<p[1], p[2], j>> \in finished
    /\ (InstancesRunning("extract_text_uinodes", running \cup finished) # {})
          => InstancesRunning("extract_uinodes", finished) # {}

C10_Witness ==
    /\ InstancesRunning("extract_text_uinodes", running) # {}
    /\ InstancesRunning("extract_ui_camera_phases", running) # {}
    /\ InstancesRunning("extract_uinodes", finished) # {}
    /\ updates = 2

-----------------------------------------------------------------------------
(* Exclusive systems, checked on the event probes placed in any stage *)

\* the running or finished instances of World::clear_trackers
Trackers(S) == {p \in S : p[1] = "main" /\ SystemAt(p).name = "World::clear_trackers"}

StageFinished(l) ==
    \A i \in 1..Len(app.schedule.stages[l].systems) : <<"main", l, i>> \in finished

\* C11: World::clear_trackers sits in Last as an exclusive system; while it
\* executes nothing else does, it starts only when every PostUpdate system
\* of the update has finished, and it has run once per update.
C11_ExclusiveRunsAlone ==
    /\ \A p \in running : SystemAt(p).exclusive => running = {p}
    /\ \A p \in Trackers(running \cup finished) :
          /\ p[2] = "Last"
          /\ SystemAt(p).exclusive
          /\ StageFinished("PostUpdate")
    /\ Cardinality(Trackers(running \cup finished)) <= 1
    /\ (pc = "idle" /\ updates >= 1) => Runs("World::clear_trackers") = updates

C11_Witness ==
    /\ updates = 2
    /\ Trackers(running) # {}
    /\ "send_e" \in SystemNames(app.schedule)
    /\ "read_e" \in SystemNames(app.schedule)
    /\ StageOfSystem("read_e") = "Last"
    /\ StageOfSystem("send_e") = "PostUpdate"
    /\ Len(app.schedule.stages["Last"].systems) = 2

-----------------------------------------------------------------------------
(* Sub-app lookup *)

PanicMessage(label) == "Sub-App with label '" \o label \o "' does not exist"

\* C12: on an App with no sub-app under the label, get_sub_app and
\* get_sub_app_mut return the error carrying that label and leave the App as
\* it was; sub_app and sub_app_mut panic with a message naming the label.
C12_SubAppNotFound ==
    LET c == last_call
    IN  (c.op \in SubAppQueries /\ c.target \notin DOMAIN c.on.sub_apps) =>
          /\ c.op \in {"get_sub_app", "get_sub_app_mut"} =>
                /\ c.result = Err(c.target)
                /\ app = c.on
                /\ pc = "config"
          /\ c.op \in {"sub_app", "sub_app_mut"} =>
                /\ pc = "panicked"
                /\ app.panic = PanicMessage(c.target)
                /\ c.result.panic = PanicMessage(c.target)

C12_Witness ==
    /\ last_call.op = "get_sub_app"
    /\ last_call.target = "AuxApp"
    /\ DOMAIN app.sub_apps = {"RenderApp"}
    /\ last_call.result = Err("AuxApp")

-----------------------------------------------------------------------------
(* Specification of App::run: App::new() or App::empty(), systems added     *)
(* with the default-stage builder calls, runners installed, then run()      *)

Runners == {"my_runner", "other_runner"}

\* the systems the configuring program registers, by builder call
UserSystems ==
    [add_system |-> "user_system", add_system_set |-> "set_system",
     add_startup_system |-> "startup_system", add_startup_system_set |-> "startup_set_system"]

UserSystemNames == {UserSystems[op] : op \in DOMAIN UserSystems}

AddUserSystem ==
    \E op \in DOMAIN UserSystems :
        LET sys == System(UserSystems[op])
            set == SystemSet_with_system(SystemSet_new, sys)
        IN  /\ run.state = "none"
            /\ UserSystems[op] \notin SystemNames(app.schedule)
            /\ Configure(CASE op = "add_system" -> add_system(app, sys)
                            [] op = "add_system_set" -> add_system_set(app, set)
                            [] op = "add_startup_system" -> add_startup_system(app, sys)
                            [] op = "add_startup_system_set" -> add_startup_system_set(app, set),
                          Call(op, "none", UserSystems[op]))

\* set_runner(r); run.installed remembers the latest runner installed
SetRunner ==
    \E r \in Runners :
        /\ pc = "config"
        /\ run.state = "none"
        /\ app.panic = NoPanic
        /\ app.runner # r
        /\ app' = set_runner(app, r)
        /\ run' = [state |-> "none", installed |-> r]
        /\ last_call' = Call("set_runner", r, "none")
        /\ UNCHANGED <<pc, step, ctx, cursor, inner, running, finished, local, sub_done,
                       updates, runs, stage_log, sub_calls, sched_runs, sent, queued, birds,
                       commands, ui, entry>>

\* run() is called on the configured App: from here on `app` is the App the
\* runner owns, and run.self what the caller's App has become
Run ==
    /\ pc = "config"
    /\ app.panic = NoPanic
    /\ run.state = "none"
    /\ LET r == App_run(app)
       IN  /\ run' = [state |-> "runner", runner |-> r.runner, self |-> r.self,
                      handed |-> r.app, on |-> app,
                      installed |-> IF "installed" \in DOMAIN run THEN run.installed
                                    ELSE "none",
                      calls |-> 1]
           /\ app' = r.app
    /\ pc' = "idle"
    /\ last_call' = NoCall
    /\ UNCHANGED <<step, ctx, cursor, inner, running, finished, local, sub_done, updates,
                   runs, stage_log, sub_calls, sched_runs, sent, queued, birds, commands, ui,
                   entry>>

\* the runner calls update(): run_once as its body says, another runner as
\* often as it likes
RunnerUpdate ==
    /\ run.state = "runner"
    /\ run.runner = "run_once" => (updates < Len(run_once) /\ run_once[updates + 1] = "update")
    /\ pc = "idle"
    /\ Update

\* the runner returns, and with it run()
RunnerReturn ==
    /\ run.state = "runner"
    /\ pc = "idle"
    /\ run.runner = "run_once" => updates = Len(run_once)
    /\ run' = [run EXCEPT !.state = "returned"]
    /\ pc' = "returned"
    /\ UNCHANGED <<app, step, ctx, cursor, inner, running, finished, local, sub_done,
                   updates, runs, stage_log, sub_calls, sched_runs, sent, queued, birds, commands,
                   last_call, ui, entry>>

InitRunApp ==
    /\ app \in {App_empty, App_default}
    /\ pc = "config"
    /\ InitRun

NextRun ==
    \/ AddUserSystem
    \/ AddAuxSubApp
    \/ SetRunner
    \/ Run
    \/ RunnerUpdate
    \/ NextStage
    \/ \E i \in 1..Len(CurSystems) : StartSystem(i)
    \/ \E p \in running : FinishSystem(p, 0, 0)
    \/ MainScheduleDone
    \/ \E l \in {"AuxApp"} : RunSubApp(l)
    \/ SubAppRunnerReturn
    \/ SubAppsDone
    \/ RunnerReturn

\* systems run to completion and the executor keeps scheduling them, so an
\* update that has begun ends and a runner that can return does
SpecRun == InitRunApp /\ [][NextRun]_vars /\ WF_vars(NextRun)

\* C13: run() calls the runner installed last, once, with an App that has
\* the world, the schedule and the sub-apps of the App run() was called on;
\* nothing has run on that App until the runner itself calls update().
C13_RunInvokesRunner ==
    run.state # "none" =>
        /\ run.installed # "none" => run.runner = run.installed
        /\ run.installed = "none" => run.runner = "run_once"
        /\ run.calls = 1
        /\ run.handed.world = run.on.world
        /\ run.handed.schedule = run.on.schedule
        /\ run.handed.sub_apps = run.on.sub_apps
        /\ updates = 0 => (app = run.handed /\ runs = EmptyMap /\ running = {})

C13_Witness ==
    /\ run.state = "runner"
    /\ run.runner = "other_runner"
    /\ run.on.runner = "other_runner"
    /\ "AuxApp" \in DOMAIN run.handed.sub_apps
    /\ "user_system" \in SystemNames(run.handed.schedule)
    /\ updates = 0

\* the user systems registered in the App
Registered == {n \in UserSystemNames : n \in SystemNames(app.schedule)}

DefaultRun == run.state # "none" /\ run.runner = "run_once"

\* C14: with the default runner, run() performs one update, in which every
\* registered system, startup or not, runs once, and then returns.
C14_DefaultRunnerOnce ==
    /\ [](DefaultRun => updates <= 1)
    /\ []((DefaultRun /\ run.state = "returned") =>
             (updates = 1 /\ \A n \in Registered : Runs(n) = 1))
    /\ ((DefaultRun /\ run.state = "runner") ~> (run.state = "returned"))

C14_Witness ==
    /\ DefaultRun
    /\ run.state = "returned"
    /\ updates = 1
    /\ Registered = UserSystemNames
    /\ \A n \in Registered : Runs(n) = 1

\* the SystemStages of Schedule s in which a system named `name` is registered
Holding(s, name) ==
    {l \in DOMAIN s.stages :
        /\ s.stages[l].kind = "SystemStage"
        /\ \E i \in 1..Len(s.stages[l].systems) : s.stages[l].systems[i].name = name}

StartupHolding(name) ==
    IF "StartupSchedule" \in DOMAIN app.schedule.stages
    THEN Holding(app.schedule.stages["StartupSchedule"], name)
    ELSE {}

\* C15: add_system and add_system_set register in Update, and the system runs
\* in every update; add_startup_system and add_startup_system_set register in
\* the Startup stage of the startup schedule and nowhere else.
C15_DefaultStagePlacement ==
    /\ \A op \in {"add_system", "add_system_set"} :
          UserSystems[op] \in Registered =>
              /\ Holding(app.schedule, UserSystems[op]) = {"Update"}
              /\ StartupHolding(UserSystems[op]) = {}
              /\ pc \in {"idle", "returned"} => Runs(UserSystems[op]) = updates
    /\ \A op \in {"add_startup_system", "add_startup_system_set"} :
          UserSystems[op] \in Registered =>
              /\ Holding(app.schedule, UserSystems[op]) = {}
              /\ StartupHolding(UserSystems[op]) = {"Startup"}

C15_Witness ==
    /\ Registered = UserSystemNames
    /\ pc = "idle"
    /\ updates = 2
    /\ Runs("set_system") = 2
    /\ Runs("startup_set_system") = 1

-----------------------------------------------------------------------------
(* Specification of states: App::new(), add_state, a system scoped to a     *)
(* state value in Update and a system that switches the state, then updates *)

AddState ==
    \E initial \in StateValues :
        /\ "State<S>" \notin DOMAIN app.world
        /\ Configure(add_state(app, initial), Call("add_state", initial, "none"))

AddScopedSystem ==
    \E x \in StateValues :
        /\ "State<S>" \in DOMAIN app.world
        /\ "scoped_system" \notin SystemNames(app.schedule)
        /\ Configure(add_system_set(app, SystemSet_with_system(SystemSet_on_update(x),
                                                              System("scoped_system"))),
                     Call("add_system_set", x, "scoped_system"))

AddSwitchSystem ==
    \E l \in {"PreUpdate", "Update", "PostUpdate"} :
        /\ "State<S>" \in DOMAIN app.world
        /\ "switch_state" \notin SystemNames(app.schedule)
        /\ Configure(add_system_to_stage(app, l, System("switch_state")),
                     Call("add_system_to_stage", l, "switch_state"))

InitState ==
    /\ app = App_default
    /\ pc = "config"
    /\ InitRun

NextState ==
    \/ AddState
    \/ AddScopedSystem
    \/ AddSwitchSystem
    \/ Update
    \/ NextStage
    \/ \E i \in 1..Len(CurSystems) : StartSystem(i)
    \/ \E p \in running : FinishSystem(p, 0, 0)
    \/ MainScheduleDone
    \/ SubAppsDone

SpecState == InitState /\ [][NextState]_vars

\* the instances of the state-scoped system among S
Scoped(S) == {p \in S : SystemAt(p).name = "scoped_system"}

\* the run criterion the scoped system was registered with
ScopeRegistered ==
    LET syss == app.schedule.stages["Update"].systems
    IN  syss[CHOOSE i \in 1..Len(syss) : syss[i].name = "scoped_system"].run_criteria

\* C16: add_state(initial) leaves State<S> = initial in the World and the
\* driver in Update; a system scoped to x executes in an update exactly when
\* State<S> was x at the entry of the stage, whatever the state becomes while
\* the stage runs.
C16_StateGatesAtEntry ==
    /\ last_call.op = "add_state" =>
          /\ app.panic = NoPanic
          /\ app.world["State<S>"] = State_new(last_call.target)
          /\ Holding(app.schedule, "State<S>::driver") = {"Update"}
    /\ \A p \in Scoped(running) : SystemAt(p).run_criteria = StateScope(entry.state)
    /\ (pc = "idle" /\ "scoped_system" \in SystemNames(app.schedule)) =>
          \A x \in StateValues :
              ScopeRegistered = StateScope(x) => Runs("scoped_system") = entry.hits[x]

C16_Witness ==
    /\ Scoped(running) # {}
    /\ updates = 3
    /\ Runs("scoped_system") = 1
    /\ Runs("switch_state") = 3
    /\ StateOf(app.world) # entry.state

-----------------------------------------------------------------------------
(* render/mod.rs: prepare_uinodes.  Lengths are in half-units so that the   *)
(* corners of a quad (+-0.5 * size around the centre) stay integers; a node *)
(* carries a translation only, as the clipping code assumes.                *)

MAX_UI_UNIFORM_ENTRIES == 256

\* the signs of QUAD_VERTEX_POSITIONS and the corner order QUAD_INDICES (1-based)
QUAD_VERTEX_POSITIONS == << <<-1, -1>>, <<1, -1>>, <<1, 1>>, <<-1, 1>> >>

QUAD_INDICES == <<1, 3, 4, 1, 2, 3>>

Max(a, b) == IF a >= b THEN a ELSE b
Min(a, b) == IF a <= b THEN a ELSE b

NoClip == [some |-> FALSE]

Clip(minx, miny, maxx, maxy) ==
    [some |-> TRUE, min |-> <<minx, miny>>, max |-> <<maxx, maxy>>]

\* an ExtractedUiNode: depth z = transform.w_axis[2], centre and size of the
\* quad, image handle, optional clip, and its colour
ExtractedUiNode(z, image, clip, color) ==
    [z |-> z, center |-> <<0, 0>>, size |-> <<2, 2>>, image |-> image, clip |-> clip,
     color |-> color]

\* the corners of the node: transform * (pos * rect_size)
Positions(n) ==
    [k \in 1..4 |-> << n.center[1] + QUAD_VERTEX_POSITIONS[k][1] * (n.size[1] \div 2),
                       n.center[2] + QUAD_VERTEX_POSITIONS[k][2] * (n.size[2] \div 2) >>]

\* the effect of clipping on each corner
PositionsDiff(n) ==
    LET pos == Positions(n)
        c == n.clip
    IN  IF c.some
        THEN << << Max(c.min[1] - pos[1][1], 0), Max(c.min[2] - pos[1][2], 0) >>,
                << Min(c.max[1] - pos[2][1], 0), Max(c.min[2] - pos[2][2], 0) >>,
                << Min(c.max[1] - pos[3][1], 0), Min(c.max[2] - pos[3][2], 0) >>,
                << Max(c.min[1] - pos[4][1], 0), Min(c.max[2] - pos[4][2], 0) >> >>
        ELSE [k \in 1..4 |-> <<0, 0>>]

PositionsClipped(n) ==
    [k \in 1..4 |-> << Positions(n)[k][1] + PositionsDiff(n)[k][1],
                       Positions(n)[k][2] + PositionsDiff(n)[k][2] >>]

\* a plausible slip: the cull test left out
Culled_never(n) == FALSE

\* nodes that are completely clipped
Culled(n) ==
    LET d == PositionsDiff(n)
    IN  \/ d[1][1] - d[2][1] >= n.size[1]
        \/ d[2][2] - d[3][2] >= n.size[2]

\* the UiUniformEntry of a node
UiUniformEntry(n) == [color |-> n.color, size |-> n.size, center |-> n.center]

\* the clipped UVs of the corners (y is reversed in UV space), before the
\* division by the atlas extent; the rect of a node is (0, 0)..size
Uvs(n) ==
    LET d == PositionsDiff(n)
    IN  << << 0 + d[1][1], n.size[2] - d[1][2] >>,
           << n.size[1] + d[2][1], n.size[2] - d[2][2] >>,
           << n.size[1] + d[3][1], 0 - d[3][2] >>,
           << 0 + d[4][1], 0 - d[4][2] >> >>

\* the six vertices of a node, referring to uniform entry `index`
Vertices(n, index) ==
    [k \in 1..Len(QUAD_INDICES) |->
        [position |-> PositionsClipped(n)[QUAD_INDICES[k]] \o <<n.z>>,
         uv |-> Uvs(n)[QUAD_INDICES[k]],
         uniform_index |-> index]]

\* a plausible slip: no sort, the nodes taken in extraction order
sort_unsorted(nodes) == nodes

\* uinodes.sort_by(z): a stable sort by increasing z, the nodes of the least
\* depth first, in the order they had
RECURSIVE sort_by_z(_)
sort_by_z(nodes) ==
    IF nodes = <<>> THEN <<>>
    ELSE LET zs == {nodes[i].z : i \in 1..Len(nodes)}
             least == CHOOSE z \in zs : \A y \in zs : z <= y
         IN  SelectSeq(nodes, LAMBDA n : n.z = least)
                 \o sort_by_z(SelectSeq(nodes, LAMBDA n : n.z # least))

\* the locals of prepare_uinodes before the loop, the buffers cleared
prepare_locals ==
    [start |-> 0, end |-> 0, current_batch_handle |-> "default", last_z |-> 0,
     current_batch_uniform |-> <<>>, current_uniform_index |-> 0,
     batches |-> <<>>, vertices |-> <<>>, ui_uniforms |-> <<>>]

\* a plausible slip: every batch given the offset of the first table
spawn_batch_first_offset(loc) ==
    [loc EXCEPT !.batches = Append(@, [range |-> <<loc.start, loc.end>>,
                                       image |-> loc.current_batch_handle,
                                       ui_uniform_offset |-> 0,
                                       z |-> loc.last_z]),
                !.ui_uniforms = Append(@, loc.current_batch_uniform)]

\* commands.spawn_bundle((UiBatch {..},)) with the uniform table pushed
spawn_batch(loc) ==
    [loc EXCEPT !.batches = Append(@, [range |-> <<loc.start, loc.end>>,
                                       image |-> loc.current_batch_handle,
                                       ui_uniform_offset |-> Len(loc.ui_uniforms),
                                       z |-> loc.last_z]),
                !.ui_uniforms = Append(@, loc.current_batch_uniform)]

\* a plausible slip: the table taken as full one entry too late
batch_ends_late(loc, n) ==
    \/ loc.current_batch_handle # n.image
    \/ loc.current_uniform_index > MAX_UI_UNIFORM_ENTRIES

\* the node cannot go into the current batch
batch_ends(loc, n) ==
    \/ loc.current_batch_handle # n.image
    \/ loc.current_uniform_index >= MAX_UI_UNIFORM_ENTRIES

\* a plausible slip: the uniform index not reset when a batch is emitted
prepare_iteration_index_kept(loc, n) ==
    LET l1 == IF batch_ends(loc, n)
              THEN [(IF loc.start # loc.end
                     THEN [spawn_batch(loc) EXCEPT !.current_batch_uniform = <<>>,
                                                   !.start = loc.end]
                     ELSE loc) EXCEPT !.current_batch_handle = n.image]
              ELSE loc
    IN  IF Culled(n) THEN l1
        ELSE [l1 EXCEPT !.current_batch_uniform = Append(@, UiUniformEntry(n)),
                        !.vertices = @ \o Vertices(n, l1.current_uniform_index),
                        !.current_uniform_index = @ + 1,
                        !.last_z = n.z,
                        !.end = @ + Len(QUAD_INDICES)]

\* one iteration of the loop over the extracted nodes
prepare_iteration(loc, n) ==
    LET l1 == IF batch_ends(loc, n)
              THEN [(IF loc.start # loc.end
                     THEN [spawn_batch(loc) EXCEPT !.current_uniform_index = 0,
                                                   !.current_batch_uniform = <<>>,
                                                   !.start = loc.end]
                     ELSE loc) EXCEPT !.current_batch_handle = n.image]
              ELSE loc
    IN  IF Culled(n) THEN l1
        ELSE [l1 EXCEPT !.current_batch_uniform = Append(@, UiUniformEntry(n)),
                        !.vertices = @ \o Vertices(n, l1.current_uniform_index),
                        !.current_uniform_index = @ + 1,
                        !.last_z = n.z,
                        !.end = @ + Len(QUAD_INDICES)]

\* after the loop: if start != end, there is one last batch to process
prepare_finish(loc) == IF loc.start # loc.end THEN spawn_batch(loc) ELSE loc

-----------------------------------------------------------------------------
(* Specification of prepare_uinodes: a frame's extracted nodes, then the    *)
(* call, one loop iteration at a time                                       *)

Images == {"a", "b"}

Depths == {0, 1}

\* a clip that cuts the left half of the quad
HalfClip == Clip(0, -1, 1, 1)

\* no clip, and clips that leave nothing of the quad on the x axis, on the y axis
Clips == {NoClip, Clip(1, -1, 3, 1), Clip(-1, -5, 1, -2)}

NodeKinds == {ExtractedUiNode(z, im, c, 0) : z \in Depths, im \in Images, c \in Clips}

\* n unclipped nodes of image "a" at depth 0
SameImageRun(n) == [i \in 1..n |-> ExtractedUiNode(0, "a", NoClip, 0)]

\* sequences around the capacity of the uniform table, alone or followed by
\* one more node, and one that fills the table twice
LongInputs ==
    {SameImageRun(n) \o t :
        n \in {MAX_UI_UNIFORM_ENTRIES, MAX_UI_UNIFORM_ENTRIES + 1},
        t \in {<<>>, <<ExtractedUiNode(1, "b", HalfClip, 0)>>,
               <<ExtractedUiNode(1, "a", Clip(1, -1, 3, 1), 0)>>}}
    \cup {SameImageRun(2 * MAX_UI_UNIFORM_ENTRIES + 1)}

ShortInputs == UNION {[1..n -> NodeKinds] : n \in 0..MaxNodes}

\* every node gets its position in the extracted sequence as its colour
Tagged(nodes) == [i \in 1..Len(nodes) |-> [nodes[i] EXCEPT !.color = i]]

\* the frame's ExtractedUiNodes and the UiMeta left by the frame before
Extracted(nodes) ==
    [at |-> "extracted", extracted |-> Tagged(nodes), uinodes |-> Tagged(nodes), k |-> 0,
     processed |-> <<>>,
     loc |-> [prepare_locals EXCEPT !.vertices = <<"stale">>, !.ui_uniforms = <<"stale">>]]

\* vertices.clear(), ui_uniforms.clear(), the sort and the locals
PrepareBegin ==
    /\ ui.at = "extracted"
    /\ ui' = [ui EXCEPT !.at = "loop", !.uinodes = sort_by_z(@), !.k = 1,
                        !.loc = prepare_locals]
    /\ UNCHANGED <<app, pc, step, ctx, cursor, inner, running, finished, local, sub_done,
                   updates, runs, stage_log, sub_calls, sched_runs, sent, queued, birds, commands,
                   last_call, run, entry>>

\* for extracted_uinode in &extracted_uinodes.uinodes
PrepareNode ==
    /\ ui.at = "loop"
    /\ ui.k <= Len(ui.uinodes)
    /\ ui' = [ui EXCEPT !.loc = prepare_iteration(@, ui.uinodes[ui.k]),
                        !.processed = Append(@, ui.uinodes[ui.k]),
                        !.k = @ + 1]
    /\ UNCHANGED <<app, pc, step, ctx, cursor, inner, running, finished, local, sub_done,
                   updates, runs, stage_log, sub_calls, sched_runs, sent, queued, birds, commands,
                   last_call, run, entry>>

\* the last batch, and the buffers written
PrepareEnd ==
    /\ ui.at = "loop"
    /\ ui.k > Len(ui.uinodes)
    /\ ui' = [ui EXCEPT !.at = "done", !.loc = prepare_finish(@)]
    /\ UNCHANGED <<app, pc, step, ctx, cursor, inner, running, finished, local, sub_done,
                   updates, runs, stage_log, sub_calls, sched_runs, sent, queued, birds, commands,
                   last_call, run, entry>>

InitPrepare ==
    /\ app = App_empty
    /\ pc = "prepare"
    /\ InitExec
    /\ \E nodes \in ShortInputs \cup LongInputs : ui = Extracted(nodes)

NextPrepare ==
    \/ PrepareBegin
    \/ PrepareNode
    \/ PrepareEnd

SpecPrepare == InitPrepare /\ [][NextPrepare]_vars

\* the whole loop on nodes already sorted, from locals loc
RECURSIVE prepare_loop(_, _)
prepare_loop(loc, nodes) ==
    IF nodes = <<>> THEN loc ELSE prepare_loop(prepare_iteration(loc, Head(nodes)), Tail(nodes))

\* what a call of prepare_uinodes leaves for the extracted sequence `nodes`
prepare_uinodes(nodes) == prepare_finish(prepare_loop(prepare_locals, sort_by_z(nodes)))

-----------------------------------------------------------------------------
(* Properties of prepare_uinodes *)

\* the clip leaves nothing of the node's span on the x axis or on the y axis
ClipRemovesAll(n) ==
    /\ n.clip.some
    /\ \/ Min(n.center[1] + n.size[1] \div 2, n.clip.max[1])
            - Max(n.center[1] - n.size[1] \div 2, n.clip.min[1]) <= 0
       \/ Min(n.center[2] + n.size[2] \div 2, n.clip.max[2])
            - Max(n.center[2] - n.size[2] \div 2, n.clip.min[2]) <= 0

NoneCulled(nodes) == \A i \in 1..Len(nodes) : ~ClipRemovesAll(nodes[i])

\* the first node of the maximal same-image run that holds node i
RunStart(nodes, i) ==
    CHOOSE j \in 1..i :
        /\ j = 1 \/ nodes[j].image # nodes[j - 1].image
        /\ \A m \in (j + 1)..i : nodes[m].image = nodes[m - 1].image

\* the nodes at which a batch begins: the first of a run, and inside a run
\* every node that follows a full table
BatchStarts(nodes) ==
    {i \in 1..Len(nodes) : (i - RunStart(nodes, i)) % MAX_UI_UNIFORM_ENTRIES = 0}

\* the node that begins the batch after the one begun by s
NextStart(nodes, s) ==
    LET later == {t \in BatchStarts(nodes) : t > s}
    IN  IF later = {} THEN Len(nodes) + 1 ELSE CHOOSE t \in later : \A u \in later : t <= u

\* C17: with no node culled, the batches are the maximal runs of consecutive
\* nodes of one image in depth order, a run being cut after every 256th
\* node: batch by batch the vertex range and the image are those of the run.
C17_BatchPerRun ==
    (ui.at = "done" /\ NoneCulled(ui.uinodes)) =>
        LET nodes == ui.uinodes
            batches == ui.loc.batches
            q == Len(QUAD_INDICES)
        IN  /\ Len(batches) = Cardinality(BatchStarts(nodes))
            /\ \A k \in 1..Len(batches) :
                  LET s == batches[k].range[1] \div q + 1
                  IN  /\ batches[k].range[1] = q * (s - 1)
                      /\ s \in BatchStarts(nodes)
                      /\ batches[k].range[2] = q * (NextStart(nodes, s) - 1)
                      /\ batches[k].image = nodes[s].image
            /\ \A k \in 1..(Len(batches) - 1) : batches[k].range[2] = batches[k + 1].range[1]
            /\ batches # <<>> => batches[1].range[1] = 0

C17_Witness ==
    /\ ui.at = "done"
    /\ Len(ui.uinodes) = MAX_UI_UNIFORM_ENTRIES + 1
    /\ Len(ui.loc.batches) = 2
    /\ ui.loc.batches[1].range = <<0, 6 * MAX_UI_UNIFORM_ENTRIES>>
    /\ ui.loc.batches[2].range = <<6 * MAX_UI_UNIFORM_ENTRIES, 6 * MAX_UI_UNIFORM_ENTRIES + 6>>

\* C18: the loop takes the nodes in non-decreasing depth, nodes of equal
\* depth in the order of extraction, and it takes every extracted node once.
C18_DepthOrder ==
    /\ ui.at \in {"loop", "done"} =>
          LET done == ui.processed
          IN  /\ \A i \in 1..(Len(done) - 1) :
                    \/ done[i].z < done[i + 1].z
                    \/ done[i].z = done[i + 1].z /\ done[i].color < done[i + 1].color
              /\ \A i \in 1..Len(done) : done[i] = ui.extracted[done[i].color]
    /\ ui.at = "done" => Len(ui.processed) = Len(ui.extracted)

C18_Witness ==
    /\ ui.at = "done"
    /\ Len(ui.extracted) = 3
    /\ ui.extracted[1].z = 1
    /\ ui.extracted[2].z = 0
    /\ ui.extracted[3].z = 1
    /\ ui.processed = <<ui.extracted[2], ui.extracted[1], ui.extracted[3]>>

\* the colours of the uniform entries written so far
EntryColors(loc) ==
    {loc.current_batch_uniform[i].color : i \in 1..Len(loc.current_batch_uniform)}
    \cup UNION {{loc.ui_uniforms[t][i].color : i \in 1..Len(loc.ui_uniforms[t])} :
                    t \in 1..Len(loc.ui_uniforms)}

C20_CulledNodeDropped ==
    (ui.at = "done" /\ Len(ui.extracted) <= MaxNodes) =>
        LET kept == prepare_uinodes(SelectSeq(ui.extracted, LAMBDA n : ~ClipRemovesAll(n)))
        IN  /\ ui.loc.batches = kept.batches
            /\ ui.loc.vertices = kept.vertices
            /\ ui.loc.ui_uniforms = kept.ui_uniforms

\* the nodes taken so far that were not culled, in the order taken
Kept == SelectSeq(ui.processed, LAMBDA n : ~ClipRemovesAll(n))

\* where the vertices of the batch that holds vertex v begin: the start of
\* the emitted batch around v, or of the batch being filled
BatchStartOf(v) ==
    LET around == {b \in 1..Len(ui.loc.batches) :
                      ui.loc.batches[b].range[1] <= v /\ v < ui.loc.batches[b].range[2]}
    IN  IF around = {} THEN ui.loc.start
        ELSE ui.loc.batches[CHOOSE b \in around : TRUE].range[1]

\* C34: the vertex ranges of the batches are non-empty, follow one another
\* from 0 without gap or overlap and end, after the call, at 6 * k for the k
\* nodes not culled; in the loop end - start = 6 * current_uniform_index, a
\* batch holds 1 to 256 nodes, and the uniform_index of a vertex is below
\* 256 and is the position of its node in its batch.
C34_BatchRanges ==
    ui.at \in {"loop", "done"} =>
        LET loc == ui.loc
            batches == loc.batches
            q == Len(QUAD_INDICES)
        IN  /\ ui.at = "loop" => loc.end - loc.start = q * loc.current_uniform_index
            /\ loc.current_uniform_index <= MAX_UI_UNIFORM_ENTRIES
            /\ loc.end = q * Len(Kept)
            /\ Len(loc.vertices) = loc.end
            /\ \A b \in 1..Len(batches) :
                  /\ batches[b].range[1] < batches[b].range[2]
                  /\ batches[b].range[1] = IF b = 1 THEN 0 ELSE batches[b - 1].range[2]
                  /\ (batches[b].range[2] - batches[b].range[1]) % q = 0
                  /\ (batches[b].range[2] - batches[b].range[1]) \div q
                        \in 1..MAX_UI_UNIFORM_ENTRIES
            /\ ui.at = "loop" =>
                  loc.start = IF batches = <<>> THEN 0 ELSE batches[Len(batches)].range[2]
            /\ ui.at = "done" =>
                  (IF batches = <<>> THEN 0 ELSE batches[Len(batches)].range[2])
                      = q * Cardinality({i \in 1..Len(ui.uinodes) : ~ClipRemovesAll(ui.uinodes[i])})
            /\ \A v \in 1..Len(loc.vertices) :
                  /\ loc.vertices[v].uniform_index < MAX_UI_UNIFORM_ENTRIES
                  /\ loc.vertices[v].uniform_index = ((v - 1) - BatchStartOf(v - 1)) \div q

C34_Witness ==
    /\ ui.at = "done"
    /\ Len(ui.uinodes) = MAX_UI_UNIFORM_ENTRIES + 2
    /\ ClipRemovesAll(ui.uinodes[Len(ui.uinodes)])
    /\ Len(ui.loc.batches) = 2
    /\ ui.loc.batches[2].range = <<6 * MAX_UI_UNIFORM_ENTRIES, 6 * MAX_UI_UNIFORM_ENTRIES + 6>>
    /\ ui.loc.vertices[6 * MAX_UI_UNIFORM_ENTRIES].uniform_index = MAX_UI_UNIFORM_ENTRIES - 1
    /\ ui.loc.vertices[6 * MAX_UI_UNIFORM_ENTRIES + 1].uniform_index = 0

\* the nodes placed in the batch
NodesOf(batch) ==
    LET q == Len(QUAD_INDICES)
    IN  SubSeq(Kept, batch.range[1] \div q + 1, batch.range[2] \div q)

\* C35: the z of a batch is the depth of the last node placed in it, the
\* largest depth in the batch; the batches are emitted in non-decreasing z;
\* the ui_uniform_offset of a batch is the place of the uniform table pushed
\* for it, which holds the entries of its nodes, and no two batches have the
\* same offset.
C35_BatchDepthAndTable ==
    ui.at \in {"loop", "done"} =>
        LET batches == ui.loc.batches
        IN  /\ \A b \in 1..Len(batches) :
                  LET nodes == NodesOf(batches[b])
                  IN  /\ batches[b].z = nodes[Len(nodes)].z
                      /\ \A i \in 1..Len(nodes) : nodes[i].z <= batches[b].z
                      /\ batches[b].ui_uniform_offset < Len(ui.loc.ui_uniforms)
                      /\ ui.loc.ui_uniforms[batches[b].ui_uniform_offset + 1]
                            = [i \in 1..Len(nodes) |-> UiUniformEntry(nodes[i])]
            /\ \A b \in 1..(Len(batches) - 1) : batches[b].z <= batches[b + 1].z
            /\ \A b, c \in 1..Len(batches) :
                  b # c => batches[b].ui_uniform_offset # batches[c].ui_uniform_offset
            /\ Len(ui.loc.ui_uniforms) = Len(batches)

C35_Witness ==
    /\ ui.at = "done"
    /\ Len(ui.uinodes) = 3
    /\ Len(ui.loc.batches) = 2
    /\ Len(NodesOf(ui.loc.batches[1])) = 1
    /\ ui.loc.batches[1].z = 0
    /\ ClipRemovesAll(ui.uinodes[3])
    /\ ui.uinodes[3].z = 1
    /\ ui.uinodes[2].z = 0
    /\ ui.loc.batches[2].z = 0
    /\ ui.loc.batches[2].ui_uniform_offset = 1

-----------------------------------------------------------------------------
(* The UI systems in the stages of the render sub-app *)

\* system `name` has started in this frame, has completed in this frame
UiStarted(name) == InstancesRunning(name, running \cup finished) # {}
UiCompleted(name) == InstancesRunning(name, finished) # {}

\* C24: in every frame of the render sub-app both extract systems complete
\* before prepare_uinodes starts, prepare_uinodes completes before
\* queue_uinodes starts, and queue_uinodes completes before
\* sort_phase_system<TransparentUi> starts.
C24_UiPipelineOrder ==
    /\ UiStarted("prepare_uinodes") =>
          UiCompleted("extract_uinodes") /\ UiCompleted("extract_text_uinodes")
    /\ UiStarted("queue_uinodes") => UiCompleted("prepare_uinodes")
    /\ UiStarted("sort_phase_system<TransparentUi>") => UiCompleted("queue_uinodes")

C24_Witness ==
    /\ updates = 2
    /\ ctx = "RenderApp"
    /\ InstancesRunning("sort_phase_system<TransparentUi>", running) # {}
    /\ UiCompleted("queue_uinodes")
    /\ UiCompleted("prepare_uinodes")
    /\ UiCompleted("extract_text_uinodes")

-----------------------------------------------------------------------------
(* Specification of the builder calls: App::new() or App::empty(), then     *)
(* registrations against present and absent stage labels, stage() calls and *)
(* resource insertions, until a call fails or MaxCalls calls were made      *)

\* the positions of the systems registered in Schedule s and in its nested Schedules
SystemSlots(s) ==
    UNION { IF s.stages[l].kind = "SystemStage"
            THEN {<<l, i>> : i \in 1..Len(s.stages[l].systems)}
            ELSE UNION {{<<l, m, i>> : i \in 1..Len(s.stages[l].stages[m].systems)} :
                            m \in DOMAIN s.stages[l].stages} : l \in DOMAIN s.stages }

\* the set a caller registers: one system, no run criterion
UserSet == SystemSet_with_system(SystemSet_new, System("set_system"))

\* the registration calls, and the stage of the main Schedule each one
\* looks up (l is the label the caller passes)
MainRegistrations ==
    {"add_system", "add_system_to_stage", "add_system_set", "add_system_set_to_stage",
     "add_event", "add_state", "add_state_to_stage"}

StartupRegistrations ==
    {"add_startup_system", "add_startup_system_to_stage", "add_startup_system_set",
     "add_startup_system_set_to_stage", "add_startup_stage", "add_startup_stage_after",
     "add_startup_stage_before"}

LooksUp(op, l) ==
    CASE op \in {"add_system", "add_system_set", "add_state"} -> "Update"
      [] op = "add_event" -> "First"
      [] op \in StartupRegistrations -> "StartupSchedule"
      [] OTHER -> l

\* the stage of the startup Schedule a startup registration looks up
LooksUpInStartup(op, l) ==
    CASE op \in {"add_startup_system", "add_startup_system_set"} -> "Startup"
      [] op = "add_startup_stage" -> "none"
      [] OTHER -> l

BuilderCall(a, op, l) ==
    CASE op = "add_system" -> add_system(a, System("user_system"))
      [] op = "add_system_to_stage" -> add_system_to_stage(a, l, System("user_system"))
      [] op = "add_system_set" -> add_system_set(a, UserSet)
      [] op = "add_system_set_to_stage" -> add_system_set_to_stage(a, l, UserSet)
      [] op = "add_event" -> add_event(a, "E")
      [] op = "add_state" -> add_state(a, "Menu")
      [] op = "add_state_to_stage" -> add_state_to_stage(a, l, "Menu")
      [] op = "add_startup_system" -> add_startup_system(a, System("user_system"))
      [] op = "add_startup_system_to_stage" ->
            add_startup_system_to_stage(a, l, System("user_system"))
      [] op = "add_startup_system_set" -> add_startup_system_set(a, UserSet)
      [] op = "add_startup_system_set_to_stage" -> add_startup_system_set_to_stage(a, l, UserSet)
      [] op = "add_startup_stage" -> add_startup_stage(a, "A", SystemStage_parallel)
      [] op = "add_startup_stage_after" ->
            add_startup_stage_after(a, l, "A", SystemStage_parallel)
      [] op = "add_startup_stage_before" ->
            add_startup_stage_before(a, l, "A", SystemStage_parallel)

\* the labels a caller passes: a stage of the main Schedule, stages of the
\* startup Schedule, and one no stage carries
BuilderLabels == {"Update", "Startup", "PreStartup", AbsentLabel}

\* the number of calls made so far
CallsMade == IF "n" \in DOMAIN last_call THEN last_call.n ELSE 0

\* the call record: the App the call was made on, and the concrete kind asked for
CallOn(op, l, kind) ==
    [on |-> app, kind |-> kind, n |-> CallsMade + 1] @@ Call(op, l, "none")

Register ==
    \E op \in MainRegistrations \cup StartupRegistrations, l \in BuilderLabels :
        /\ CallsMade < MaxCalls
        /\ "A" \notin AllLabels(app)
        /\ (LooksUp(op, l) = l \/ LooksUpInStartup(op, l) = l \/ l = "Update")
        /\ Configure(BuilderCall(app, op, l), CallOn(op, l, "none"))

StageCall ==
    \E l \in {"Update", "StartupSchedule", AbsentLabel}, kind \in {"SystemStage", "Schedule"} :
        /\ CallsMade < MaxCalls
        /\ "F" \notin AllLabels(app)
        /\ Configure(stage(app, l, kind), CallOn("stage", l, kind))

ResourceTypes == {"R", "Q"}

ResourceValues == {1, 2}

\* what R::from_world gives for the resource types of the probes
ResourceDefault == 0

InsertResource ==
    \E r \in ResourceTypes, v \in ResourceValues :
        /\ CallsMade < MaxCalls
        /\ Configure(insert_resource(app, r, v),
                     [value |-> v] @@ CallOn("insert_resource", r, "none"))

InitResource ==
    \E r \in ResourceTypes :
        /\ CallsMade < MaxCalls
        /\ Configure(init_resource(app, r, ResourceDefault),
                     [value |-> ResourceDefault] @@ CallOn("init_resource", r, "none"))

\* the Apps the calls start from
BuilderApps ==
    {App_empty, add_default_stages(App_empty), App_default, add_state(App_default, "Game")}

InitBuilder ==
    /\ app \in BuilderApps
    /\ pc = "config"
    /\ InitRun

NextBuilder ==
    \/ Register
    \/ StageCall
    \/ InsertResource
    \/ InitResource

SpecBuilder == InitBuilder /\ [][NextBuilder]_vars

-----------------------------------------------------------------------------
(* Properties of the builder calls *)

\* World w2 is World w1 with the resource of type r set to v, the resources
\* of the other types as they were
OnlySet(w1, w2, r, v) ==
    /\ DOMAIN w2 = DOMAIN w1 \cup {r}
    /\ w2[r] = v
    /\ \A q \in DOMAIN w1 \ {r} : w2[q] = w1[q]

\* C25: insert_resource leaves the World with the new value under the type,
\* in place of the value the type had; init_resource leaves the World with
\* the default value under the type when the type was absent and leaves the
\* World as it was otherwise; no call touches the resource of another type
\* and none fails.
C25_OneResourcePerType ==
    LET c == last_call
    IN  /\ c.op = "insert_resource" =>
              /\ OnlySet(c.on.world, app.world, c.target, c.value)
              /\ pc = "config"
        /\ c.op = "init_resource" =>
              /\ IF c.target \in DOMAIN c.on.world
                 THEN app.world = c.on.world
                 ELSE OnlySet(c.on.world, app.world, c.target, ResourceDefault)
              /\ pc = "config"

C25_Witness ==
    /\ last_call.op = "init_resource"
    /\ last_call.target = "R"
    /\ last_call.n = 2
    /\ "R" \in DOMAIN last_call.on.world
    /\ last_call.on.world["R"] = 2
    /\ app.world["R"] = 2
    /\ "Events<AppExit>" \in DOMAIN app.world

\* the calls that register a system, a system set, an event or a state
SystemRegistrations ==
    MainRegistrations \cup {"add_startup_system", "add_startup_system_to_stage",
                            "add_startup_system_set", "add_startup_system_set_to_stage"}

\* the stage the call c looks up is absent from the Schedule it is looked up in
TargetAbsent(c) ==
    LET s == c.on.schedule
        outer == LooksUp(c.op, c.target)
    IN  \/ outer \notin DOMAIN s.stages
        \/ /\ c.op \in StartupRegistrations
           /\ LooksUpInStartup(c.op, c.target) \notin DOMAIN s.stages[outer].stages \cup {"none"}

\* C26: a registration of a system, a system set, an event or a state
\* against a stage label absent from the Schedule fails at the call itself:
\* the call panics, the process ends there, and the Schedule holds nothing
\* that a later update() could trip over.
C26_RegistrationFailsAtCall ==
    LET c == last_call
    IN  (c.op \in SystemRegistrations /\ TargetAbsent(c)) =>
            /\ pc = "panicked"
            /\ app.panic # NoPanic
            /\ app.schedule = c.on.schedule

C26_Witness ==
    /\ last_call.op = "add_event"
    /\ last_call.on = App_empty
    /\ pc = "panicked"
    /\ app.panic = "StageNotFound"

\* stage `new` is stage `old` after one application of the closure of stage()
AppliedOnce(kind, old, new) ==
    IF kind = "SystemStage"
    THEN new = [old EXCEPT !.systems = Append(@, System("f_system"))]
    ELSE /\ new.stage_order = Append(old.stage_order, "F")
         /\ DOMAIN new.stages = DOMAIN old.stages \cup {"F"}
         /\ \A l \in DOMAIN old.stages : new.stages[l] = old.stages[l]
         /\ new.run_criteria = old.run_criteria

\* C27: stage(label, f) applies f once to the stage under the label when
\* the stage exists and is of the kind asked for, the other stages and the
\* stage order as they were; it fails, f not applied, when the label is
\* missing or the kind differs.  On an App without the StartupSchedule stage
\* every add_startup_* call fails.
C27_StageAppliesOnce ==
    LET c == last_call
        before == c.on.schedule
    IN  /\ c.op = "stage" =>
              IF c.target \in DOMAIN before.stages
              THEN IF before.stages[c.target].kind = c.kind
                   THEN /\ pc = "config"
                        /\ AppliedOnce(c.kind, before.stages[c.target],
                                       app.schedule.stages[c.target])
                        /\ app.schedule.stage_order = before.stage_order
                        /\ \A l \in DOMAIN before.stages \ {c.target} :
                              app.schedule.stages[l] = before.stages[l]
                   ELSE /\ pc = "panicked"
                        /\ app.panic = "StageKindMismatch"
                        /\ app.schedule = before
              ELSE /\ pc = "panicked"
                   /\ app.panic = "StageNotFound"
                   /\ app.schedule = before
        /\ (c.op \in StartupRegistrations /\ "StartupSchedule" \notin DOMAIN before.stages) =>
              /\ pc = "panicked"
              /\ app.panic = "StageNotFound"
              /\ app.schedule = before

C27_Witness ==
    /\ last_call.op = "stage"
    /\ last_call.target = "Update"
    /\ last_call.kind = "SystemStage"
    /\ last_call.n = 2
    /\ last_call.on.schedule.stages["Update"].systems = <<System("user_system")>>
    /\ app.schedule.stages["Update"].systems = <<System("user_system"), System("f_system")>>

\* the message of the assertion of each call
StartupAssertion(op) ==
    IF op = "add_system_to_stage"
    THEN "add systems to a startup stage using App::add_startup_system_to_stage"
    ELSE "add system sets to a startup stage using App::add_startup_system_set_to_stage"

\* C29: add_system_to_stage and add_system_set_to_stage called with a label
\* of the StartupStage type fail at once with the message of their
\* assertion, naming the startup variant of the call, and add nothing to the
\* main Schedule or to the startup Schedule.
C29_StartupLabelAsserted ==
    LET c == last_call
    IN  (c.op \in {"add_system_to_stage", "add_system_set_to_stage"}
            /\ c.target \in StartupStageType) =>
            /\ pc = "panicked"
            /\ app.panic = StartupAssertion(c.op)
            /\ app.schedule = c.on.schedule
            /\ SystemSlots(app.schedule) = SystemSlots(c.on.schedule)

C29_Witness ==
    /\ last_call.op = "add_system_set_to_stage"
    /\ last_call.target = "Startup"
    /\ "Startup" \in Range(StartupOrder(last_call.on))
    /\ last_call.n = 2
    /\ pc = "panicked"
    /\ app.panic = "add system sets to a startup stage using App::add_startup_system_set_to_stage"
    /\ "set_system" \notin SystemNames(app.schedule)

\* C33: add_state_to_stage and add_event change the World before they reach
\* the Schedule: when the registration fails, the State<S> resource holds
\* the new initial value, whatever it held, and the Events<E> resource is
\* there, while the Schedule is as it was.
C33_WorldChangedBeforeFailure ==
    LET c == last_call
    IN  /\ (c.op \in {"add_state", "add_state_to_stage"} /\ pc = "panicked") =>
              /\ OnlySet(c.on.world, app.world, "State<S>", State_new("Menu"))
              /\ app.schedule = c.on.schedule
              /\ (c.op = "add_state_to_stage" /\ c.target \in StartupStageType) =>
                    app.panic = StartupAssertion("add_system_set_to_stage")
        /\ (c.op = "add_event" /\ pc = "panicked") =>
              /\ "Events<E>" \in DOMAIN app.world
              /\ "Events<E>" \notin DOMAIN c.on.world =>
                    OnlySet(c.on.world, app.world, "Events<E>", Events_default)
              /\ app.schedule = c.on.schedule

C33_Witness ==
    /\ last_call.op = "add_state_to_stage"
    /\ last_call.target = "Startup"
    /\ pc = "panicked"
    /\ "State<S>" \in DOMAIN last_call.on.world
    /\ last_call.on.world["State<S>"] = State_new("Game")
    /\ app.world["State<S>"] = State_new("Menu")

-----------------------------------------------------------------------------
(* Specification of a second run(): after the configuration and the first   *)
(* run() of the specification above, run() is called once more, by the      *)
(* caller on the value it still holds or by the runner on the App it got    *)

\* the record of the second call: who made it, the App it was made on, what
\* App_run made of it and the number of updates made before it
Again(by, a) ==
    LET r == App_run(a)
    IN  [by |-> by, on |-> a, runner |-> r.runner, self |-> r.self, handed |-> r.app,
         base |-> updates]

\* the caller calls run() again on the value the first run() left it
RunAgain ==
    /\ run.state = "returned"
    /\ pc = "returned"
    /\ "again" \notin DOMAIN run
    /\ run' = [again |-> Again("caller", run.self)] @@ [run EXCEPT !.state = "again"]
    /\ app' = App_run(run.self).app
    /\ pc' = "idle"
    /\ UNCHANGED <<step, ctx, cursor, inner, running, finished, local, sub_done, updates,
                   runs, stage_log, sub_calls, sched_runs, sent, queued, birds, commands,
                   last_call, ui, entry>>

\* a runner installed by the caller calls run() on the App it received
RunnerRuns ==
    /\ run.state = "runner"
    /\ run.runner \in Runners
    /\ pc = "idle"
    /\ "again" \notin DOMAIN run
    /\ run' = [again |-> Again("runner", app)] @@ [run EXCEPT !.state = "again"]
    /\ app' = App_run(app).app
    /\ UNCHANGED <<pc, step, ctx, cursor, inner, running, finished, local, sub_done,
                   updates, runs, stage_log, sub_calls, sched_runs, sent, queued, birds, commands,
                   last_call, ui, entry>>

\* the runner of the second call calls update(): run_once as its body says
AgainUpdate ==
    /\ run.state = "again"
    /\ pc = "idle"
    /\ run.again.runner = "run_once" =>
          /\ updates - run.again.base < Len(run_once)
          /\ run_once[updates - run.again.base + 1] = "update"
    /\ Update

\* the second run() returns: to the caller, or to the runner that made it,
\* which goes on with the value run() left it
AgainReturn ==
    /\ run.state = "again"
    /\ pc = "idle"
    /\ run.again.runner = "run_once" => updates - run.again.base = Len(run_once)
    /\ IF run.again.by = "caller"
       THEN /\ run' = [run EXCEPT !.state = "returned"]
            /\ pc' = "returned"
            /\ app' = app
       ELSE /\ run' = [run EXCEPT !.state = "runner"]
            /\ pc' = "idle"
            /\ app' = run.again.self
    /\ UNCHANGED <<step, ctx, cursor, inner, running, finished, local, sub_done,
                   updates, runs, stage_log, sub_calls, sched_runs, sent, queued, birds, commands,
                   last_call, ui, entry>>

NextRerun ==
    \/ AddUserSystem
    \/ SetRunner
    \/ Run
    \/ RunnerUpdate
    \/ NextStage
    \/ \E i \in 1..Len(CurSystems) : StartSystem(i)
    \/ \E p \in running : FinishSystem(p, 0, 0)
    \/ MainScheduleDone
    \/ SubAppsDone
    \/ RunnerReturn
    \/ RunAgain
    \/ RunnerRuns
    \/ AgainUpdate
    \/ AgainReturn

SpecRerun == InitRunApp /\ [][NextRerun]_vars

\* the value App::empty() gives, spelled out
IsPlaceholder(a) ==
    /\ a.schedule.stage_order = <<>>
    /\ DOMAIN a.schedule.stages = {}
    /\ DOMAIN a.world = {}
    /\ DOMAIN a.sub_apps = {}
    /\ a.runner = "run_once"

\* the runners run() has invoked so far, in the order of the calls
Invoked ==
    (IF run.state # "none" THEN <<run.runner>> ELSE <<>>)
        \o (IF "again" \in DOMAIN run THEN <<run.again.runner>> ELSE <<>>)

\* C30: once run() was called, the App it was called on is the placeholder
\* of App::empty() and the App handed to the runner carries run_once in
\* place of the runner installed; a second run(), by the caller on its value
\* or by the runner on the App it received, invokes run_once, so a runner
\* installed by the caller is invoked once at most.
C30_RunLeavesPlaceholder ==
    /\ run.state # "none" =>
          /\ IsPlaceholder(run.self)
          /\ run.handed.runner = "run_once"
    /\ "again" \in DOMAIN run =>
          /\ run.again.runner = "run_once"
          /\ IsPlaceholder(run.again.self)
          /\ run.again.by = "caller" => IsPlaceholder(run.again.on)
    /\ Cardinality({i \in 1..Len(Invoked) : Invoked[i] \in Runners}) <= 1

C30_Witness ==
    /\ "again" \in DOMAIN run
    /\ run.again.by = "runner"
    /\ run.runner = "my_runner"
    /\ Invoked = <<"my_runner", "run_once">>
    /\ "user_system" \in SystemNames(run.again.on.schedule)
    /\ run.state = "runner"
    /\ updates = run.again.base + 1
    /\ IsPlaceholder(app)

-----------------------------------------------------------------------------
(* render/mod.rs: extract_uinodes, extract_text_uinodes and queue_uinodes   *)

\* the record extract_uinodes pushes for a UI node entity
ExtractedOf(e) == ExtractedUiNode(e.z, e.image, e.clip, e.color)

\* a plausible slip: the test on the image assets left out
extract_uinodes_unloaded_too(uinodes, images, uinode_query) ==
    LET kept == SelectSeq(uinode_query, LAMBDA e : e.visible)
    IN  [i \in 1..Len(kept) |-> ExtractedOf(kept[i])]

\* a plausible slip: the records of the frame before not cleared
extract_uinodes_uncleared(uinodes, images, uinode_query) ==
    LET kept == SelectSeq(uinode_query, LAMBDA e : e.visible /\ e.image \in images)
    IN  uinodes \o [i \in 1..Len(kept) |-> ExtractedOf(kept[i])]

\* extract_uinodes on the ExtractedUiNodes left in the render world: clear,
\* then one record per entity of the query that is visible and whose image
\* the image assets contain
extract_uinodes(uinodes, images, uinode_query) ==
    LET cleared == SubSeq(uinodes, 1, 0)
        kept == SelectSeq(uinode_query, LAMBDA e : e.visible /\ e.image \in images)
    IN  cleared \o [i \in 1..Len(kept) |-> ExtractedOf(kept[i])]

\* the records extract_text_uinodes pushes for one text entity: one per
\* glyph of its layout, the image being the texture of the glyph's atlas
RECURSIVE TextRecords(_)
TextRecords(text_query) ==
    IF text_query = <<>> THEN <<>>
    ELSE LET e == Head(text_query)
         IN  (IF ~e.visible \/ e.zero_size THEN <<>>
              ELSE [g \in 1..Len(e.glyphs) |->
                       ExtractedUiNode(e.z, e.glyphs[g].texture, e.clip, e.glyphs[g].color)])
             \o TextRecords(Tail(text_query))

\* a plausible slip: the list cleared by the text system too
extract_text_uinodes_clears(uinodes, text_query) == TextRecords(text_query)

\* extract_text_uinodes: the records are pushed after those already there
extract_text_uinodes(uinodes, text_query) == uinodes \o TextRecords(text_query)

\* an AssetEvent on an image
AssetEvent(kind, handle) == [kind |-> kind, handle |-> handle]

\* a plausible slip: a Created event taken as a change of the image too
remove_changed_any_event(values, events) ==
    [h \in {x \in DOMAIN values : \A i \in 1..Len(events) : events[i].handle # x}
        |-> values[h]]

\* a plausible slip: the bind group of a Removed image left in the cache
remove_changed_modified_only(values, events) ==
    [h \in {x \in DOMAIN values :
               \A i \in 1..Len(events) :
                   ~(events[i].kind = "Modified" /\ events[i].handle = x)}
        |-> values[h]]

\* the loop over events.images: Modified and Removed remove the bind group
\* of the image they name, Created removes nothing
remove_changed(values, events) ==
    [h \in {x \in DOMAIN values :
               \A i \in 1..Len(events) :
                   ~(events[i].kind \in {"Modified", "Removed"} /\ events[i].handle = x)}
        |-> values[h]]

\* the bind group create_bind_group makes for an image in frame `frame`
BindGroup(image, frame) == [label |-> "ui_material_bind_group", image |-> image, made |-> frame]

\* a plausible slip: the start of the vertex range taken as the sort key
TransparentUi_by_range(entity, batch) ==
    [draw_function |-> "DrawUi", pipeline |-> "UiPipeline", entity |-> entity,
     sort_key |-> batch.range[1]]

\* the phase item of a batch
TransparentUi(entity, batch) ==
    [draw_function |-> "DrawUi", pipeline |-> "UiPipeline", entity |-> entity,
     sort_key |-> batch.z]

\* the body of the loop over the batches: the bind group of the image is
\* taken from the cache or made from the GPU image, and the item is added
queue_batch(st, view, entity, batch, gpu_images, frame) ==
    IF st.panic # NoPanic THEN st
    ELSE IF batch.image \notin DOMAIN st.values /\ batch.image \notin gpu_images
    THEN [st EXCEPT !.panic = "called Option::unwrap() on a None value"]
    ELSE LET s1 == IF batch.image \in DOMAIN st.values THEN st
                   ELSE [st EXCEPT !.values = (batch.image :> BindGroup(batch.image, frame)) @@ @,
                                   !.created = Append(@, batch.image)]
         IN  [s1 EXCEPT !.phases[view] = Append(@, TransparentUi(entity, batch))]

\* for (entity, batch) in ui_batches.iter(): the entity of a batch is its
\* position among the batches spawned in the frame
RECURSIVE queue_batches(_, _, _, _, _, _)
queue_batches(st, view, batches, k, gpu_images, frame) ==
    IF k > Len(batches) THEN st
    ELSE queue_batches(queue_batch(st, view, k, batches[k], gpu_images, frame),
                       view, batches, k + 1, gpu_images, frame)

\* for mut transparent_phase in views.iter_mut()
RECURSIVE queue_views(_, _, _, _, _)
queue_views(st, view, batches, gpu_images, frame) ==
    IF view > Len(st.phases) THEN st
    ELSE queue_views(queue_batches(st, view, batches, 1, gpu_images, frame),
                     view + 1, batches, gpu_images, frame)

\* queue_uinodes: the cache after the events, and when the view uniforms
\* have a binding the items of every view
queue_uinodes(events, view_binding, values, gpu_images, batches, phases, frame) ==
    LET st == [values |-> remove_changed(values, events), phases |-> phases,
               created |-> <<>>, panic |-> NoPanic]
    IN  IF view_binding THEN queue_views(st, 1, batches, gpu_images, frame) ELSE st

-----------------------------------------------------------------------------
(* Specification of the UI systems over frames: the main world of a frame,  *)
(* then extract_uinodes, extract_text_uinodes, prepare_uinodes and          *)
(* queue_uinodes on the render world the frame before left                  *)

\* the UI node entities of the main world, in the order of the query: the
\* colour of an entity tells it from the others
UiNodeQueries ==
    {<< [color |-> 1, image |-> "a", z |-> 1, clip |-> NoClip, visible |-> v1],
        [color |-> 2, image |-> "b", z |-> 0, clip |-> NoClip, visible |-> v2] >> :
        v1 \in BOOLEAN, v2 \in BOOLEAN}

\* the image assets: "a" is loading or loaded, "b" and the font atlas are loaded
ImageAssets == {{"b", "atlas"}, {"a", "b", "atlas"}}

\* one text entity with one glyph, visible or not
TextQueries ==
    {<< [visible |-> v, zero_size |-> FALSE, z |-> 0, clip |-> NoClip,
         glyphs |-> << [texture |-> "atlas", color |-> 3] >>] >> : v \in BOOLEAN}

\* the image events of a frame
ImageEvents ==
    {<<>>} \cup {<<AssetEvent(k, "a")>> : k \in {"Created", "Modified", "Removed"}}

\* the render world before the first frame
UiStart(nviews) ==
    [at |-> "start", frame |-> 0, nviews |-> nviews,
     uinode_query |-> <<>>, images |-> {}, text_query |-> <<>>, events |-> <<>>,
     view_binding |-> FALSE,
     uinodes |-> <<>>, vertices |-> <<>>, ui_uniforms |-> <<>>,
     batches |-> <<>>, values |-> EmptyMap,
     phases |-> [v \in 1..nviews |-> <<>>], created |-> <<>>, skipped |-> {},
     panic |-> NoPanic]

\* the entities of the query left out because their image is loading
Loading(q, images) ==
    {q[i].color : i \in {j \in 1..Len(q) : q[j].visible /\ q[j].image \notin images}}

UiRest ==
    UNCHANGED <<app, pc, step, ctx, cursor, inner, running, finished, local, sub_done,
                updates, runs, stage_log, sub_calls, sched_runs, sent, queued, birds, commands,
                last_call, run, entry>>

\* a frame begins: the main world is what the frame made of it, the views
\* are extracted with empty phases and the batch entities of the frame
\* before are gone
UiFrame ==
    /\ ui.at \in {"start", "queued"}
    /\ ui.panic = NoPanic
    /\ ui.frame < MaxFrames
    /\ \E q \in UiNodeQueries, im \in ImageAssets, t \in TextQueries, ev \in ImageEvents,
          b \in BOOLEAN :
          ui' = [ui EXCEPT !.at = "extract", !.frame = @ + 1,
                           !.uinode_query = q, !.images = im, !.text_query = t,
                           !.events = ev, !.view_binding = b,
                           !.batches = <<>>, !.created = <<>>,
                           !.phases = [v \in 1..ui.nviews |-> <<>>],
                           !.skipped = @ \cup Loading(ui.uinode_query, ui.images)]
    /\ UiRest

UiExtractNodes ==
    /\ ui.at = "extract"
    /\ ui' = [ui EXCEPT !.at = "extract_text",
                        !.uinodes = extract_uinodes(@, ui.images, ui.uinode_query)]
    /\ UiRest

UiExtractText ==
    /\ ui.at = "extract_text"
    /\ ui' = [ui EXCEPT !.at = "prepare",
                        !.uinodes = extract_text_uinodes(@, ui.text_query)]
    /\ UiRest

\* ui_meta.vertices.clear(), ui_meta.ui_uniforms.clear()
ui_meta_clear(buffer) == SubSeq(buffer, 1, 0)

\* prepare_uinodes: the buffers are cleared, the extracted nodes are sorted
\* in place, the vertices and the uniform tables pushed and the batches spawned
UiPrepare ==
    /\ ui.at = "prepare"
    /\ ui' = [ui EXCEPT !.at = "queue",
                        !.uinodes = sort_by_z(@),
                        !.vertices = ui_meta_clear(@) \o prepare_uinodes(ui.uinodes).vertices,
                        !.ui_uniforms =
                            ui_meta_clear(@) \o prepare_uinodes(ui.uinodes).ui_uniforms,
                        !.batches = prepare_uinodes(ui.uinodes).batches]
    /\ UiRest

\* queue_uinodes; the GPU images are those of the loaded image assets
UiQueue ==
    /\ ui.at = "queue"
    /\ LET r == queue_uinodes(ui.events, ui.view_binding, ui.values, ui.images,
                              ui.batches, ui.phases, ui.frame)
       IN  ui' = [ui EXCEPT !.at = "queued", !.values = r.values, !.phases = r.phases,
                            !.created = r.created, !.panic = r.panic]
    /\ UiRest

InitUi ==
    /\ app = App_empty
    /\ pc = "ui"
    /\ InitExec
    /\ \E nviews \in {1, 2} : ui = UiStart(nviews)

NextUi ==
    \/ UiFrame
    \/ UiExtractNodes
    \/ UiExtractText
    \/ UiPrepare
    \/ UiQueue

SpecUi == InitUi /\ [][NextUi]_vars

-----------------------------------------------------------------------------
(* Properties of the UI systems *)

\* the phase items of view v that draw batch entity k
ItemsOf(v, k) == {i \in 1..Len(ui.phases[v]) : ui.phases[v][i].entity = k}

\* C21: when the view uniforms have a binding, queue_uinodes leaves in the
\* TransparentUi phase of every view one item per UiBatch, its sort key the
\* depth z of the batch, and nothing else; without the binding it leaves
\* the phases empty.
C21_OneItemPerBatch ==
    (ui.at = "queued" /\ ui.panic = NoPanic) =>
        \A v \in 1..ui.nviews :
            IF ui.view_binding
            THEN /\ Len(ui.phases[v]) = Len(ui.batches)
                 /\ \A k \in 1..Len(ui.batches) :
                       /\ Cardinality(ItemsOf(v, k)) = 1
                       /\ \A i \in ItemsOf(v, k) : ui.phases[v][i].sort_key = ui.batches[k].z
            ELSE ui.phases[v] = <<>>

C21_Witness ==
    /\ ui.at = "queued"
    /\ ui.nviews = 2
    /\ ui.view_binding
    /\ Len(ui.batches) = 3
    /\ ui.batches[3].z = 1
    /\ ui.batches[3].range = <<12, 18>>
    /\ Len(ui.phases[2]) = 3
    /\ ui.phases[2][3].sort_key = 1
    /\ ui.phases[2][1].sort_key = 0

\* a Modified or a Removed event of the frame names the image
Named(events, image) ==
    \E i \in 1..Len(events) :
        events[i].handle = image /\ events[i].kind \in {"Modified", "Removed"}

\* C22: no step but queue_uinodes touches the cache; queue_uinodes makes a
\* bind group only for an image the cache has no entry for once the events
\* are taken into account, and makes it once; an entry no Modified or
\* Removed event names stays as it is; and when items were queued the cache
\* holds an entry for the image of every batch.
C22_BindGroupCache ==
    [][/\ ui.at # "queue" => ui'.values = ui.values
       /\ ui.at = "queue" =>
             /\ \A i \in 1..Len(ui'.created) :
                   /\ ui'.created[i] \notin DOMAIN ui.values \/ Named(ui.events, ui'.created[i])
                   /\ \A j \in 1..Len(ui'.created) : ui'.created[j] = ui'.created[i] => j = i
             /\ \A im \in DOMAIN ui.values :
                   ~Named(ui.events, im) =>
                       im \in DOMAIN ui'.values /\ ui'.values[im] = ui.values[im]
             /\ \A im \in DOMAIN ui'.values :
                   (im \notin DOMAIN ui.values \/ ui'.values[im] # ui.values[im])
                       => im \in Range(ui'.created)
             /\ (\E v \in 1..ui.nviews : ui'.phases[v] # <<>>) =>
                   \A k \in 1..Len(ui.batches) : ui.batches[k].image \in DOMAIN ui'.values]_vars

C22_Witness ==
    /\ ui.at = "queued"
    /\ ui.frame = 2
    /\ ui.events = <<AssetEvent("Created", "a")>>
    /\ \E k \in 1..Len(ui.batches) : ui.batches[k].image = "a"
    /\ "a" \in DOMAIN ui.values
    /\ ui.values["a"].made = 1
    /\ ui.phases[1] # <<>>
    /\ "a" \notin Range(ui.created)

\* the records of ExtractedUiNodes that come from the entity at position i of the query
RecordsOf(i) ==
    {k \in 1..Len(ui.uinodes) :
        /\ ui.uinodes[k].color = ui.uinode_query[i].color
        /\ ui.uinodes[k].image = ui.uinode_query[i].image
        /\ ui.uinodes[k].z = ui.uinode_query[i].z}

\* the entity is visible and the image assets contain its image
Ready(e) == e.visible /\ e.image \in ui.images

\* C23: after extract_uinodes, ExtractedUiNodes holds one record for every
\* UI node entity that is visible and whose image is loaded, none for the
\* other entities and nothing else; so an entity left out while its image
\* was loading has its record in the first frame that finds it visible with
\* the image loaded.
C23_ExtractVisibleLoaded ==
    ui.at = "extract_text" =>
        /\ \A i \in 1..Len(ui.uinode_query) :
              Cardinality(RecordsOf(i)) = IF Ready(ui.uinode_query[i]) THEN 1 ELSE 0
        /\ Len(ui.uinodes) =
              Cardinality({i \in 1..Len(ui.uinode_query) : Ready(ui.uinode_query[i])})
        /\ \A i \in 1..Len(ui.uinode_query) :
              (ui.uinode_query[i].color \in ui.skipped /\ Ready(ui.uinode_query[i]))
                  => RecordsOf(i) # {}

C23_Witness ==
    /\ ui.at = "extract_text"
    /\ ui.frame = 2
    /\ 1 \in ui.skipped
    /\ "a" \in ui.images
    /\ ui.uinode_query[1].visible
    /\ ~ui.uinode_query[2].visible
    /\ Len(ui.uinodes) = 1
    /\ ui.uinodes[1].image = "a"

\* what the extract systems leave in a render world that holds nothing
ExtractedFresh == extract_text_uinodes(extract_uinodes(<<>>, ui.images, ui.uinode_query),
                                       ui.text_query)

\* C28: the records the Extract stage leaves are those it leaves in a render
\* world that holds nothing, whatever the records, sorted by Prepare, the
\* batches and the bind groups the frames before have left.
C28_ExtractIgnoresRenderWorld ==
    /\ ui.at = "extract_text" => ui.uinodes = extract_uinodes(<<>>, ui.images, ui.uinode_query)
    /\ ui.at = "prepare" => ui.uinodes = ExtractedFresh

C28_Witness ==
    /\ ui.at = "prepare"
    /\ ui.frame = 2
    /\ DOMAIN ui.values = {"a", "b", "atlas"}
    /\ Len(ui.uinodes) = 3
    /\ ui.uinodes[1].z = 1
    /\ ui.uinodes[2].z = 0
    /\ ui.uinodes[3].image = "atlas"

\* the glyphs of the text entities that extract_text_uinodes does not skip
ShownGlyphs ==
    {<<i, g>> \in (1..Len(ui.text_query)) \X (1..1) :
        /\ ui.text_query[i].visible
        /\ ~ui.text_query[i].zero_size
        /\ g <= Len(ui.text_query[i].glyphs)}

\* the records of ExtractedUiNodes that come from glyph g of text entity i
GlyphRecordsOf(i, g) ==
    {k \in 1..Len(ui.uinodes) :
        /\ ui.uinodes[k].color = ui.text_query[i].glyphs[g].color
        /\ ui.uinodes[k].image = ui.text_query[i].glyphs[g].texture}

\* the colours of the entries of the uniform tables
TableColors ==
    UNION {{ui.ui_uniforms[t][i].color : i \in 1..Len(ui.ui_uniforms[t])} :
              t \in 1..Len(ui.ui_uniforms)}

\* C36: when the Extract stage is over, ExtractedUiNodes holds one record for
\* every UI node entity of the frame that is visible with its image loaded,
\* then one for every glyph of the frame's visible text, and nothing else,
\* whatever the frame before left there; after prepare_uinodes the vertex
\* and the uniform buffers hold the vertices and the entries of the frame's
\* records and nothing else.
C36_OnlyCurrentFrame ==
    /\ ui.at = "prepare" =>
          /\ \A i \in 1..Len(ui.uinode_query) :
                Cardinality(RecordsOf(i)) = IF Ready(ui.uinode_query[i]) THEN 1 ELSE 0
          /\ \A p \in ShownGlyphs :
                /\ Cardinality(GlyphRecordsOf(p[1], p[2])) = 1
                /\ \A i \in 1..Len(ui.uinode_query) :
                      \A k \in RecordsOf(i), m \in GlyphRecordsOf(p[1], p[2]) : k < m
          /\ Len(ui.uinodes) =
                Cardinality({i \in 1..Len(ui.uinode_query) : Ready(ui.uinode_query[i])})
                    + Cardinality(ShownGlyphs)
    /\ ui.at \in {"queue", "queued"} =>
          LET drawn == SelectSeq(ui.uinodes, LAMBDA n : ~ClipRemovesAll(n))
              q == Len(QUAD_INDICES)
          IN  /\ Len(ui.vertices) = q * Len(drawn)
              /\ \A v \in 1..Len(ui.vertices) :
                    ui.vertices[v].position[3] = drawn[(v - 1) \div q + 1].z
              /\ Len(ui.ui_uniforms) = Len(ui.batches)
              /\ TableColors = {drawn[i].color : i \in 1..Len(drawn)}

C36_Witness ==
    /\ ui.at = "queue"
    /\ ui.frame = 2
    /\ DOMAIN ui.values = {"a", "b", "atlas"}
    /\ Len(ui.uinodes) = 1
    /\ ui.uinodes[1].image = "atlas"
    /\ Len(ui.vertices) = 6
    /\ Len(ui.ui_uniforms) = 1

\* the images a Modified or a Removed event of the frame names
Changed == {im \in {"a", "b", "atlas"} : Named(ui.events, im)}

\* some batch of the frame draws the image
Batched(im) == \E k \in 1..Len(ui.batches) : ui.batches[k].image = im

\* C37: in a call of queue_uinodes the bind group of an image that a
\* Modified or a Removed event names is dropped before the batches are
\* looked up: when a batch of the image is queued the cache holds for it a
\* bind group made in this frame, and no entry otherwise; the entries of the
\* other images are left as they were, and with Created events only the
\* cache keeps every entry it had.
C37_ChangedImageRebound ==
    [][ui.at = "queue" =>
          /\ \A im \in Changed :
                IF ui.view_binding /\ Batched(im) /\ ui'.panic = NoPanic
                THEN /\ im \in DOMAIN ui'.values
                     /\ ui'.values[im] = BindGroup(im, ui.frame)
                     /\ im \in Range(ui'.created)
                ELSE ui'.panic = NoPanic => im \notin DOMAIN ui'.values
          /\ \A im \in DOMAIN ui.values \ Changed :
                im \in DOMAIN ui'.values /\ ui'.values[im] = ui.values[im]
          /\ (\A i \in 1..Len(ui.events) : ui.events[i].kind = "Created") =>
                \A im \in DOMAIN ui.values :
                    im \in DOMAIN ui'.values /\ ui'.values[im] = ui.values[im]]_vars

C37_Witness ==
    /\ ui.at = "queued"
    /\ ui.frame = 2
    /\ ui.events = <<AssetEvent("Removed", "a")>>
    /\ Batched("a")
    /\ Batched("b")
    /\ ui.phases[1] # <<>>
    /\ ui.values["a"] = BindGroup("a", 2)
    /\ ui.values["b"] = BindGroup("b", 1)

-----------------------------------------------------------------------------
(* Specification of the sub-app registrations: add_sub_app called on        *)
(* App::new(), under a free label or one in use, then updates               *)

SubAppLabels == {"AuxApp", "OtherApp"}

SubAppRunners == {"update_runner", "noop_runner"}

\* the Apps registered as sub-apps; the sub-app of a sub-app carries a runner
\* that does nothing, so that update() of its parent is its Schedule run
SubApps ==
    {App_default,
     add_system(App_default, System("user_system")),
     add_sub_app(App_default, "Nested", App_default, "noop_runner")}

\* the registrations made so far, in call order
SubAppsAdded == IF "registered" \in DOMAIN run THEN run.registered ELSE <<>>

\* the latest registration under the label
Latest(l) ==
    LET idx == {i \in 1..Len(SubAppsAdded) : SubAppsAdded[i].label = l}
    IN  SubAppsAdded[CHOOSE i \in idx : \A j \in idx : j <= i]

AddSubApp ==
    \E l \in SubAppLabels, sub \in SubApps, r \in SubAppRunners :
        /\ pc = "config"
        /\ app.panic = NoPanic
        /\ Len(SubAppsAdded) < MaxCalls
        /\ app' = add_sub_app(app, l, sub, r)
        /\ last_call' = [on |-> app] @@ Call("add_sub_app", "none", l)
        /\ run' = [state |-> "none",
                   registered |-> Append(SubAppsAdded, [label |-> l, app |-> sub, runner |-> r])]
        /\ UNCHANGED <<pc, step, ctx, cursor, inner, running, finished, local, sub_done,
                       updates, runs, stage_log, sub_calls, sched_runs, sent, queued, birds,
                       commands, ui, entry>>

InitSubApps ==
    /\ app = App_default
    /\ pc = "config"
    /\ InitRun

NextSubApps ==
    \/ AddSubApp
    \/ Update
    \/ NextStage
    \/ \E i \in 1..Len(CurSystems) : StartSystem(i)
    \/ \E p \in running : FinishSystem(p, 0, 0)
    \/ MainScheduleDone
    \/ \E l \in SubAppLabels : RunSubApp(l)
    \/ SubAppRunnerReturn
    \/ SubAppsDone

SpecSubApps == InitSubApps /\ [][NextSubApps]_vars

\* the stage labels entered in context c during the update, in order
LogOf(c) ==
    LET own == SelectSeq(stage_log, LAMBDA e : e[1] = c)
    IN  [i \in 1..Len(own) |-> own[i][2]]

\* C31: after add_sub_app(l, a, r) both lookups of l return a and the entries
\* under the other labels are as they were; a registration under a label in
\* use replaces the App and the runner, so that a label holds one sub-app,
\* that of its latest registration, and an update invokes the latest runner
\* once and never runs what an earlier registration put there.
C31_LatestSubApp ==
    /\ DOMAIN app.sub_apps = {SubAppsAdded[i].label : i \in 1..Len(SubAppsAdded)}
    /\ \A l \in DOMAIN app.sub_apps : app.sub_apps[l].runner = Latest(l).runner
    /\ last_call.op = "add_sub_app" =>
          LET l == last_call.label
              before == last_call.on.sub_apps
          IN  /\ get_sub_app(app, l) = Ok(SubAppsAdded[Len(SubAppsAdded)].app)
              /\ get_sub_app_mut(app, l) = Ok(SubAppsAdded[Len(SubAppsAdded)].app)
              /\ DOMAIN app.sub_apps = DOMAIN before \cup {l}
              /\ \A m \in DOMAIN before \ {l} : app.sub_apps[m] = before[m]
    /\ \A l \in DOMAIN sub_calls :
          /\ sub_calls[l] <= 1
          /\ LogOf(l) # <<>> => Latest(l).runner = "update_runner"
          /\ (l \in sub_done /\ Latest(l).runner = "update_runner") => LogOf(l) # <<>>
    /\ Runs("user_system") > 0 =>
          \E l \in DOMAIN app.sub_apps :
             /\ Latest(l).runner = "update_runner"
             /\ "user_system" \in SystemNames(Latest(l).app.schedule)

C31_Witness ==
    /\ Len(SubAppsAdded) = 2
    /\ SubAppsAdded[1] = [label |-> "AuxApp", app |-> App_default, runner |-> "noop_runner"]
    /\ SubAppsAdded[2].label = "AuxApp"
    /\ SubAppsAdded[2].runner = "update_runner"
    /\ "user_system" \in SystemNames(SubAppsAdded[2].app.schedule)
    /\ pc = "idle"
    /\ updates = 1
    /\ sub_calls["AuxApp"] = 1
    /\ Runs("user_system") = 1

\* the stages one run of the Schedule enters: its SystemStages in list order,
\* and those of a nested Schedule on the first run only
RECURSIVE StagesFrom(_, _, _)
StagesFrom(s, i, first) ==
    IF i > Len(s.stage_order) THEN <<>>
    ELSE LET st == s.stages[s.stage_order[i]]
             here == IF st.kind = "SystemStage" THEN <<s.stage_order[i]>>
                     ELSE IF first THEN st.stage_order
                     ELSE <<>>
         IN  here \o StagesFrom(s, i + 1, first)

\* the system instances of context c started in the update
InstancesOf(c) == {p \in running \cup finished : p[1] = c}

\* C32: update() does not run the Schedule of a sub-app by itself. A sub-app
\* whose runner does nothing stays as it was registered, sub-apps of its own
\* included, and none of its stages is entered and none of its systems runs;
\* a Schedule of a sub-app runs only inside the call of its runner; a sub-app
\* whose runner updates it has entered each of its stages once, in list
\* order, when the runner returns.
C32_OnlyTheRunner ==
    /\ \A l \in DOMAIN app.sub_apps :
          Latest(l).runner = "noop_runner" =>
             /\ app.sub_apps[l].app = Latest(l).app
             /\ LogOf(l) = <<>>
             /\ InstancesOf(l) = {}
    /\ ctx # "main" =>
          /\ sub_calls[ctx] = 1
          /\ ctx \notin sub_done
          /\ app.sub_apps[ctx].runner = "update_runner"
    /\ \A l \in sub_done :
          Latest(l).runner = "update_runner" =>
             LogOf(l) = StagesFrom(Latest(l).app.schedule, 1, updates = 1)
    /\ \A l \in DOMAIN app.sub_apps :
          "Nested" \in DOMAIN app.sub_apps[l].app.sub_apps =>
             app.sub_apps[l].app.sub_apps = Latest(l).app.sub_apps

C32_Witness ==
    /\ updates = 2
    /\ pc = "idle"
    /\ DOMAIN app.sub_apps = {"AuxApp", "OtherApp"}
    /\ app.sub_apps["AuxApp"].runner = "noop_runner"
    /\ "Nested" \in DOMAIN app.sub_apps["AuxApp"].app.sub_apps
    /\ app.sub_apps["OtherApp"].runner = "update_runner"
    /\ "user_system" \in SystemNames(app.sub_apps["OtherApp"].app.schedule)
    /\ Runs("user_system") = 2
    /\ LogOf("OtherApp") = LogOf("main")

-----------------------------------------------------------------------------
(* Properties of bevymark: the counter and the resources of setup *)

Spawners == {"mouse_handler", "scheduled_spawner"}

\* C38: mouse_handler and scheduled_spawner never execute at the same time;
\* BevyCounter.count is the number of bird spawns queued so far, and the
\* depth ranks given to the birds grow strictly in the order the spawns
\* were queued, so no two birds have the same rank.
C38_DepthRanks ==
    /\ \A p, q \in running :
          (p # q /\ SystemAt(p).name \in Spawners) => SystemAt(q).name \notin Spawners
    /\ app.world["BevyCounter"].count = Len(birds)
    /\ Len(birds) = queued
    /\ \A i, j \in 1..Len(birds) : i < j => birds[i] < birds[j]

C38_Witness ==
    /\ pc = "idle"
    /\ Runs("mouse_handler") = 2
    /\ Runs("scheduled_spawner") = 2
    /\ app.world["BirdScheduled"] = [per_wave |-> 2, wave |-> 0]
    /\ birds = <<0, 1, 2, 3, 4>>
    /\ app.world["BevyCounter"].count = 5

\* the resources setup inserts through its commands
SetupResources == {"BirdTexture", "BirdScheduled"}

\* the resources of setup a system takes as parameters
Required(name) == SetupResources \cap (Access(name).reads \cup Access(name).writes)

\* C39: whenever mouse_handler or scheduled_spawner executes, in the first
\* update as in the later ones, setup has run and the resources of setup
\* the system takes were in the World when it started; and once the Update
\* stage is entered the World holds both resources.
C39_SetupResourcesPresent ==
    /\ \A p \in running :
          SystemAt(p).name \in Spawners =>
             /\ Runs("setup") = 1
             /\ Required(SystemAt(p).name) # {}
             /\ Required(SystemAt(p).name) \subseteq DOMAIN local[p]
             /\ Required(SystemAt(p).name) \subseteq DOMAIN app.world
    /\ (ScheduleActive /\ cursor > 0 /\ CurStageLabel = "Update") =>
          SetupResources \subseteq DOMAIN app.world
    /\ \A name \in Spawners : Runs(name) > 0 => SetupResources \subseteq DOMAIN app.world

C39_Witness ==
    /\ updates = 1
    /\ Runs("setup") = 1
    /\ \E p \in running :
          /\ SystemAt(p).name = "scheduled_spawner"
          /\ p[2] = "Update"
          /\ local[p]["BirdScheduled"].wave = 2
          /\ "BirdTexture" \in DOMAIN local[p]
    /\ Runs("mouse_handler") = 0

====
